---- MODULE Spec2Model ----
(***************************************************************************)
(* Region-claiming web application: the client-side flood-fill engine,     *)
(* seed recovery, overlay manager and confirm protocol (the two front-end  *)
(* variants src/unnamed/part_001 and src/unnamed/part_002), against the    *)
(* claim store of src/server.js.                                           *)
(***************************************************************************)
EXTENDS Integers, Sequences, FiniteSets, TLC

\* ------------------------------------------------------------- dimensions
\* The natural size of the map image. The image itself is no part of the
\* sources; a 3 x 3 raster stands for it.
ImageW == 3
ImageH == 3

\* ------------------------------------------------------------------ bounds
\* Rasters of the fill specification hold at most this many non-white pixels.
MaxDark == 2
\* Fill calls applied to one overlay before it is cleared again.
MaxFills == 2
\* Clicks on the map in one behaviour.
MaxClicks == 2
\* Clicks on the confirm button in one behaviour.
MaxConfirms == 1
\* confirmPendingClaims runs in flight at once.
MaxRuns == 2
\* Detached reloadSavedClaims calls in flight at once.
MaxReloads == 1
\* Largest claim id the store hands out.
MaxId == 3
\* Clicks on the map in one behaviour of the specifications of concurrent
\* confirms and of the background poll.
FewClicks == 1
\* Ticks of the background poll in one behaviour.
MaxPolls == 2
\* Clicks on the clear-database button in one behaviour.
MaxClears == 1
\* POST /claims requests the server handles at once.
MaxPosts == 2
\* Largest dailyClaimLimit an admin sets.
MaxLimit == 2
\* Largest claims_used_today of a user who sends POST /claims/delete.
MaxUsed == 4
\* Largest maxRadius findNearestWhitePixel is called with.
MaxRadius == 3
\* Largest side of the framed square rasters.
MaxFrame == 5
\* Width of the one-row rasters of the seed recovery far from white.
StripW == 23

\* ------------------------------------------------------------ raster sampler
White == [r |-> 255, g |-> 255, b |-> 255, a |-> 255]
Black == [r |-> 0, g |-> 0, b |-> 0, a |-> 255]

Transparent == <<0, 0, 0, 0>>

VARIABLES
  variant,            \* 1: the front end of part_001, 2: the front end of part_002
  offscreen,          \* the offscreen canvas the image is drawn to: its width and height
  baseData,           \* the base raster: Pix -> RGBA, never written after load
  savedOverlay,       \* savedCtx pixel buffer: Pix -> <<r,g,b,a>>
  tempOverlay,        \* tempCtx pixel buffer: Pix -> <<r,g,b,a>>
  overlayComposites,  \* the transient region canvases, in push order
  call,               \* the last floodFillOverlay call and what it returned
  pendingClaims,      \* the client's unconfirmed claims, in click order
  selectedTeam,       \* the team of the dropdown
  renderedClaimIds,   \* part_001: ids whose replay fill succeeded
  runs,               \* the confirmPendingClaims calls: position and locals
  reloadsSent,        \* detached reloadSavedClaims calls whose GET is unanswered
  reloadsAnswered,    \* responses of detached reloads the client has not handled
  claimsTable,        \* the store's claims rows, by ascending id
  nextId,             \* the AUTOINCREMENT sequence of the claims table
  userRow,            \* the users row of the session's user
  isAdmin,            \* whether the session's username is in serverSettings.Admins
  left,               \* how many map clicks, confirm clicks, poll ticks and database clears
                      \* the behaviour has left
  lastClaimCount,     \* part_001: the length of the claim list last fetched by a reload or a poll
  poll,               \* part_001: the callback of the 3 s interval, its position and response
  clearDb,            \* the listener of the clear-database button: its position, request and response
  posts               \* the POST /claims requests the server is handling, each between two
                      \* database callbacks, with the locals of its handler

fillVars == <<variant, offscreen, baseData, savedOverlay, tempOverlay, overlayComposites,
              call>>
clientVars == <<pendingClaims, selectedTeam, renderedClaimIds, runs, reloadsSent, reloadsAnswered>>
storeVars == <<claimsTable, nextId, userRow, isAdmin>>
pollVars == <<lastClaimCount, poll>>
vars == <<fillVars, clientVars, storeVars, left, pollVars, clearDb, posts>>

\* const w = offscreen.width, h = offscreen.height
W == offscreen.width
H == offscreen.height

Pix == (0 .. W - 1) \X (0 .. H - 1)

\* part_001: exact white, alpha ignored.
IsBaseWhiteXY1(x, y) ==
  IF x < 0 \/ y < 0 \/ x >= W \/ y >= H THEN FALSE
  ELSE LET p == baseData[<<x, y>>] IN p.r = 255 /\ p.g = 255 /\ p.b = 255

Tol == 250
AlphaMin == 200

\* part_002: tolerant white, opaque.
IsBaseWhiteXY2(x, y) ==
  IF x < 0 \/ y < 0 \/ x >= W \/ y >= H THEN FALSE
  ELSE LET p == baseData[<<x, y>>]
       IN p.a > AlphaMin /\ p.r >= Tol /\ p.g >= Tol /\ p.b >= Tol

IsBaseWhiteXY(x, y) ==
  IF variant = 1 THEN IsBaseWhiteXY1(x, y) ELSE IsBaseWhiteXY2(x, y)

\* ------------------------------------------------------------ flood fill
\* alpha != 0 means already filled
PixelHasFill(data, x, y) == data[<<x, y>>][4] # 0

\* The condition the scan repeats for a neighbour: white in the base, not
\* filled in the buffer being written, not visited in this call.
QualifiesIgnoringBase(st, x, y) ==
  /\ ~PixelHasFill(st.data, x, y)
  /\ <<x, y>> \notin st.visited

Qualifies(st, x, y) ==
  /\ IsBaseWhiteXY(x, y)
  /\ ~PixelHasFill(st.data, x, y)
  /\ <<x, y>> \notin st.visited

Max2(a, b) == IF a > b THEN a ELSE b

\* The body of the paint: write the colour, mark visited, count, grow the box.
PaintPixel(st, i, y) ==
  [st EXCEPT !.data[<<i, y>>] = st.fillRGBA,
             !.visited = @ \cup {<<i, y>>},
             !.filledCount = @ + 1,
             !.minX = IF i < @ THEN i ELSE @,
             !.maxX = IF i > @ THEN i ELSE @,
             !.minY = IF y < @ THEN y ELSE @,
             !.maxY = IF y > @ THEN y ELSE @]

\* The scan started at the popped pixel, not at the left end of its span.
WalkLeftStays(st, x, y) == x

RECURSIVE WalkLeft(_, _, _)
WalkLeft(st, x, y) ==
  IF x > 0 /\ Qualifies(st, x - 1, y) THEN WalkLeft(st, x - 1, y) ELSE x

RECURSIVE WalkRight(_, _, _)
WalkRight(st, x2, y) ==
  IF x2 < W - 1 /\ Qualifies(st, x2 + 1, y) THEN WalkRight(st, x2 + 1, y) ELSE x2

\* part_001: fill rightward from i while the pixel itself qualifies.
RECURSIVE FillRightwardFrom(_, _, _, _)
FillRightwardFrom(st, x, i, y) ==
  IF i < W /\ Qualifies(st, i, y)
  THEN FillRightwardFrom(PaintPixel(st, i, y), x, i + 1, y)
  ELSE [st |-> st, x |-> x, i |-> i]

FillRightward(st, x, y) == FillRightwardFrom(st, x, x, y)

\* The span painted without the test of visited.
RECURSIVE FillSpanRepaintsVisited(_, _, _, _)
FillSpanRepaintsVisited(st, i, x2, y) ==
  IF i > x2 THEN st
  ELSE FillSpanRepaintsVisited(PaintPixel(st, i, y), i + 1, x2, y)

\* part_002: fill the span x..x2, skipping only pixels visited in this call.
RECURSIVE FillSpan(_, _, _, _)
FillSpan(st, i, x2, y) ==
  IF i > x2 THEN st
  ELSE IF <<i, y>> \in st.visited THEN FillSpan(st, i + 1, x2, y)
  ELSE FillSpan(PaintPixel(st, i, y), i + 1, x2, y)

\* A scan that pushes only the pixels above the span.
RECURSIVE PushSpansAboveOnly(_, _, _, _)
PushSpansAboveOnly(st, j, x2, y) ==
  IF j > x2 THEN st
  ELSE LET s1 == IF y > 0 /\ Qualifies(st, j, y - 1)
                 THEN Append(st.stack, <<j, y - 1>>) ELSE st.stack
       IN PushSpansAboveOnly([st EXCEPT !.stack = s1], j + 1, x2, y)

\* Both variants: push the qualifying pixels above and below the span.
RECURSIVE PushSpans(_, _, _, _)
PushSpans(st, j, x2, y) ==
  IF j > x2 THEN st
  ELSE LET s1 == IF y > 0 /\ Qualifies(st, j, y - 1)
                 THEN Append(st.stack, <<j, y - 1>>) ELSE st.stack
           s2 == IF y < H - 1 /\ Qualifies(st, j, y + 1)
                 THEN Append(s1, <<j, y + 1>>) ELSE s1
       IN PushSpans([st EXCEPT !.stack = s2], j + 1, x2, y)

\* One iteration of the while (stack.length) loop, the point already popped.
\* (A value bound by a singleton set is computed once.)
FillIteration1(st, p) ==
  IF p \in st.visited \/ ~IsBaseWhiteXY(p[1], p[2]) THEN st
  ELSE CHOOSE r \in {PushSpans(f.st, f.x, f.i - 1, p[2]) :
                     f \in {FillRightward(st, x, p[2]) : x \in {WalkLeft(st, p[1], p[2])}}} : TRUE

FillIteration2(st, p) ==
  CHOOSE r \in {PushSpans(FillSpan(st, s[1], s[2], p[2]), s[1], s[2], p[2]) :
                s \in {<<x, WalkRight(st, x, p[2])>> : x \in {WalkLeft(st, p[1], p[2])}}} : TRUE

FillIteration(st, p) ==
  IF variant = 1 THEN FillIteration1(st, p) ELSE FillIteration2(st, p)

RECURSIVE FillLoop(_)
FillLoop(st) ==
  IF st.stack = <<>> THEN st
  ELSE CHOOSE r \in {FillLoop(nx) :
                     nx \in {FillIteration([st EXCEPT !.stack = SubSeq(@, 1, Len(@) - 1)],
                                           st.stack[Len(st.stack)])}} : TRUE

\* The locals of floodFillOverlay before its loop.
FillStart(data, sx, sy, fillRGBA) ==
  [data |-> data, visited |-> {}, stack |-> <<<<sx, sy>>>>, filledCount |-> 0,
   fillRGBA |-> fillRGBA,
   minX |-> W, minY |-> H,
   maxX |-> IF variant = 1 THEN -1 ELSE 0,
   maxY |-> IF variant = 1 THEN -1 ELSE 0]

\* The region canvas floodFillOverlay cuts from the overlay after a fill.
RegionW(st) ==
  IF variant = 1 THEN Max2(1, st.maxX - st.minX + 1) ELSE Max2(1, st.maxX - st.minX)
RegionH(st) ==
  IF variant = 1 THEN Max2(1, st.maxY - st.minY + 1) ELSE Max2(1, st.maxY - st.minY)

\* getImageData(minX, minY, regionW, regionH): pixels outside the canvas read
\* as transparent black.
RegionCanvas(st) ==
  [q \in (0 .. RegionW(st) - 1) \X (0 .. RegionH(st) - 1) |->
     LET px == <<st.minX + q[1], st.minY + q[2]>>
     IN IF px \in DOMAIN st.data THEN st.data[px] ELSE Transparent]

\* The region's pixels are copied when the composite is pushed (the comparison
\* makes the copy: the function is computed here, not when it is next read).
Composite(st) ==
  [canvas |-> (CHOOSE f \in {RegionCanvas(st)} : f = f), width |-> RegionW(st), height |-> RegionH(st),
   minX |-> st.minX, minY |-> st.minY, maxX |-> st.maxX, maxY |-> st.maxY]

MaxComposites == 50

PushComposite(comps, st) ==
  LET pushed == Append(comps, Composite(st))
  IN IF variant = 2 /\ Len(pushed) > MaxComposites THEN Tail(pushed) ELSE pushed

\* floodFillOverlay(overlayCtx, startX, startY, fillRGBA): the returned
\* boolean, the overlay buffer and the composites after the call, and the
\* locals the claims speak about.
FillReturn(st, data, comps) ==
  IF st.filledCount = 0
  THEN [ok |-> FALSE, data |-> data, comps |-> comps, painted |-> {},
        filledCount |-> 0, minX |-> st.minX, minY |-> st.minY,
        maxX |-> st.maxX, maxY |-> st.maxY]
  ELSE [ok |-> TRUE, data |-> st.data, comps |-> PushComposite(comps, st),
        painted |-> st.visited, filledCount |-> st.filledCount,
        minX |-> st.minX, minY |-> st.minY, maxX |-> st.maxX, maxY |-> st.maxY]

SeedRejectedOutOfBoundsOnly(sx, sy) == sx < 0 \/ sy < 0 \/ sx >= W \/ sy >= H

\* The two early returns of floodFillOverlay: out of bounds, not white.
SeedRejected(sx, sy) ==
  sx < 0 \/ sy < 0 \/ sx >= W \/ sy >= H \/ ~IsBaseWhiteXY(sx, sy)

FloodFillOverlay(data, comps, startX, startY, fillRGBA) ==
  IF SeedRejected(startX, startY)
  THEN [ok |-> FALSE, data |-> data, comps |-> comps, painted |-> {},
        filledCount |-> 0, minX |-> W, minY |-> H, maxX |-> -1, maxY |-> -1]
  ELSE CHOOSE r \in {FillReturn(st, data, comps) :
                     st \in {FillLoop(FillStart(data, startX, startY, fillRGBA))}} : TRUE

ClearRect == [p \in Pix |-> Transparent]

\* ------------------------------------------------------------ draw
\* What one region canvas paints at image pixel p: drawImage places the
\* canvas at (minX, minY); outside the canvas nothing is painted.
CompositeAt(o, p) ==
  LET q == <<p[1] - o.minX, p[2] - o.minY>>
  IN IF q \in DOMAIN o.canvas THEN o.canvas[q] ELSE Transparent

\* draw(): the images painted over the base raster at image pixel p, in
\* painting order: the saved overlay, the pending overlay, the region
\* canvases in push order.
Draw(p) ==
  <<savedOverlay[p], tempOverlay[p]>>
    \o [k \in 1 .. Len(overlayComposites) |-> CompositeAt(overlayComposites[k], p)]

\* The last image that painted something at a pixel, by its place in the
\* painting order (0: only the base raster shows).
RECURSIVE TopLayer(_)
TopLayer(layers) ==
  IF layers = <<>> THEN 0
  ELSE IF layers[Len(layers)][4] # 0 THEN Len(layers)
  ELSE TopLayer(SubSeq(layers, 1, Len(layers) - 1))

\* ------------------------------------------------------------ seed recovery
\* The null findNearestWhitePixel returns.
NoPixel == <<>>

\* One neighbour of the BFS: skipped out of bounds or when visited, else
\* marked and queued.
PushNeighbour(b, n) ==
  IF n[1] < 0 \/ n[2] < 0 \/ n[1] >= W \/ n[2] >= H THEN b
  ELSE IF n \in b.visited THEN b
  ELSE [q |-> Append(b.q, n), visited |-> b.visited \cup {n}]

\* The right neighbour forgotten.
PushNeighboursButRight(b, p) ==
  PushNeighbour(PushNeighbour(PushNeighbour(b,
    <<p[1], p[2] - 1>>), <<p[1], p[2] + 1>>), <<p[1] - 1, p[2]>>)

\* The neighbour below forgotten.
PushNeighboursButDown(b, p) ==
  PushNeighbour(PushNeighbour(PushNeighbour(b,
    <<p[1], p[2] - 1>>), <<p[1] - 1, p[2]>>), <<p[1] + 1, p[2]>>)

\* The four neighbours in the order of the source: up, down, left, right.
PushNeighbours(b, p) ==
  PushNeighbour(PushNeighbour(PushNeighbour(PushNeighbour(b,
    <<p[1], p[2] - 1>>), <<p[1], p[2] + 1>>), <<p[1] - 1, p[2]>>), <<p[1] + 1, p[2]>>)

RECURSIVE SearchLoop(_, _, _, _, _)
SearchLoop(b, head, sx, sy, maxDist2) ==
  IF head > Len(b.q) THEN NoPixel
  ELSE LET p == b.q[head]
           dx == p[1] - sx
           dy == p[2] - sy
       IN IF dx * dx + dy * dy > maxDist2 THEN SearchLoop(b, head + 1, sx, sy, maxDist2)
          ELSE IF IsBaseWhiteXY(p[1], p[2]) THEN p
          ELSE CHOOSE r \in {SearchLoop(nb, head + 1, sx, sy, maxDist2) :
                             nb \in {PushNeighbours(b, p)}} : TRUE

\* The radius ignored: the search runs to the far corner of the raster.
FindNearestWhitePixelAtAnyDistance(sx, sy, maxRadius) ==
  IF sx < 0 \/ sy < 0 \/ sx >= W \/ sy >= H THEN NoPixel
  ELSE SearchLoop([q |-> <<<<sx, sy>>>>, visited |-> {<<sx, sy>>}], 1, sx, sy,
                  W * W + H * H)

\* findNearestWhitePixel(sx, sy, maxRadius): a pixel <<x, y>> or NoPixel.
FindNearestWhitePixel(sx, sy, maxRadius) ==
  IF sx < 0 \/ sy < 0 \/ sx >= W \/ sy >= H THEN NoPixel
  ELSE SearchLoop([q |-> <<<<sx, sy>>>>, visited |-> {<<sx, sy>>}], 1, sx, sy,
                  maxRadius * maxRadius)

\* ------------------------------------------------------------ colours
\* A hex colour is the sequence of its digits ("#f00" is <<15, 0, 0>>); an
\* absent colour (undefined, null, "") is the empty sequence.
NoColor == <<>>
RECURSIVE ParseHex(_)
ParseHex(m) == IF m = <<>> THEN 0 ELSE ParseHex(SubSeq(m, 1, Len(m) - 1)) * 16 + m[Len(m)]

\* hexToRgba(hex, alpha): a three-digit colour has every digit doubled.
HexToRgba(hex, alpha) ==
  IF hex = NoColor THEN <<0, 0, 0, alpha>>
  ELSE LET m == IF Len(hex) = 3
                THEN <<hex[1], hex[1], hex[2], hex[2], hex[3], hex[3]>> ELSE hex
           bigint == ParseHex(m)
       IN <<(bigint \div 65536) % 256, (bigint \div 256) % 256, bigint % 256, alpha>>

\* settings.Teams of ServerSettings.json (the file is no part of the sources).
Teams == <<"Red", "Blue">>
TeamColor(team) == IF team = "Red" THEN <<15, 15, 0, 0, 0, 0>> ELSE <<0, 0, 15>>

Empty == "__EMPTY__"
HexWhite == <<15, 15, 15, 15, 15, 15>>
HexGray == <<12, 12, 12, 12, 12, 12>>
HexBlack == <<0, 0, 0, 0, 0, 0>>

\* getSelectedTeamColor(): part_001 answers white for the remove marker.
GetSelectedTeamColor ==
  IF variant = 1 /\ selectedTeam = Empty THEN HexWhite ELSE TeamColor(selectedTeam)

PendingAlpha1 == 128
PendingAlpha2 == 200
SavedAlpha == 255
PendingRadius == 20
SavedRadius == 80

\* The colour addPendingClaim fills with: the team colour at half alpha in
\* part_001, a fixed gray in part_002.
PendingFillColor(color) ==
  IF variant = 1 THEN HexToRgba(IF color = NoColor THEN HexGray ELSE color, PendingAlpha1)
  ELSE HexToRgba(HexGray, PendingAlpha2)

\* ------------------------------------------------------------ overlay manager
\* A fill at the seed and, when it fails, one retry at the recovered seed:
\* the shape addPendingClaim and the replay of reloadSavedClaims share.
RetryAt(first, found, rgba) ==
  IF found = NoPixel THEN first
  ELSE FloodFillOverlay(first.data, first.comps, found[1], found[2], rgba)

FillOrRecover(data, comps, x, y, rgba, radius) ==
  CHOOSE r \in {IF first.ok THEN first
                ELSE RetryAt(first, FindNearestWhitePixel(x, y, radius), rgba) :
                first \in {FloodFillOverlay(data, comps, x, y, rgba)}} : TRUE

\* Math.floor and Math.round of an image coordinate given in half pixels.
Floor2(h) == h \div 2
Round2(h) == (h + 1) \div 2

\* The claim object addPendingClaim builds (its date left out).
NewClaim(hx, hy) ==
  [imgX |-> Round2(hx), imgY |-> Round2(hy), team |-> selectedTeam,
   color |-> GetSelectedTeamColor]

\* The fill of addPendingClaim and its one retry, on the pending overlay.
PendingFill(claim) ==
  FillOrRecover(tempOverlay, overlayComposites, claim.imgX, claim.imgY,
                PendingFillColor(claim.color), PendingRadius)

\* addPendingClaim(imgX, imgY): the claim is pushed, then the fill is tried.
AddPendingClaim(hx, hy) ==
  \E claim \in {NewClaim(hx, hy)} :
    \E ret \in {PendingFill(claim)} :
      /\ pendingClaims' = Append(pendingClaims, claim)
      /\ tempOverlay' = ret.data
      /\ overlayComposites' = ret.comps

\* A replay without the retry at a recovered seed.
ReplayClaimWithoutRetry(acc, c) ==
  CHOOSE r \in {[saved |-> ret.data, comps |-> ret.comps,
                 rendered |-> IF ret.ok THEN acc.rendered \cup {c.id} ELSE acc.rendered] :
                ret \in {FloodFillOverlay(acc.saved, acc.comps, c.x, c.y,
                                          HexToRgba(IF c.color = NoColor THEN HexBlack ELSE c.color,
                                                    SavedAlpha))}} : TRUE

\* One claim of the fetched list replayed into the saved overlay.
ReplayClaim(acc, c) ==
  CHOOSE r \in {[saved |-> ret.data, comps |-> ret.comps,
                 rendered |-> IF ret.ok THEN acc.rendered \cup {c.id} ELSE acc.rendered] :
                ret \in {FillOrRecover(acc.saved, acc.comps, c.x, c.y,
                                       HexToRgba(IF c.color = NoColor THEN HexBlack ELSE c.color,
                                                 SavedAlpha), SavedRadius)}} : TRUE

RECURSIVE ReplayClaims(_, _)
ReplayClaims(acc, claims) ==
  IF claims = <<>> THEN acc
  ELSE CHOOSE r \in {ReplayClaims(nx, Tail(claims)) :
                     nx \in {ReplayClaim(acc, Head(claims))}} : TRUE

ClaimIds(claims) == {claims[k].id : k \in 1 .. Len(claims)}

\* The comparison dropped: every reload clears and replays.
IdsAlwaysChanged(claims, rendered) == TRUE

\* part_001: the id set of the fetched list against the rendered ids.
IdsChanged(claims, rendered) ==
  \/ Cardinality(ClaimIds(claims)) # Cardinality(rendered)
  \/ ~(\A id \in ClaimIds(claims) : id \in rendered)

\* The clear hoisted out of the test of idsChanged.
ReloadResultClearsBeforeCompare(resp, saved, comps, rendered) ==
  IF ~resp.ok THEN [saved |-> saved, comps |-> comps, rendered |-> rendered]
  ELSE IF variant = 1 /\ ~IdsChanged(resp.claims, rendered)
       THEN [saved |-> ClearRect, comps |-> comps, rendered |-> rendered]
       ELSE ReplayClaims([saved |-> ClearRect, comps |-> <<>>,
                          rendered |-> IF variant = 1 THEN {} ELSE rendered], resp.claims)

\* What reloadSavedClaims does with the response of its GET /claims.
ReloadResult(resp, saved, comps, rendered) ==
  IF ~resp.ok THEN [saved |-> saved, comps |-> comps, rendered |-> rendered]
  ELSE IF variant = 1 /\ ~IdsChanged(resp.claims, rendered)
       THEN [saved |-> saved, comps |-> comps, rendered |-> rendered]
       ELSE ReplayClaims([saved |-> ClearRect, comps |-> <<>>,
                          rendered |-> IF variant = 1 THEN {} ELSE rendered], resp.claims)

\* reloadSavedClaims keeps the length of the list it fetched (part_001).
CountAfterReload(resp) ==
  IF variant = 1 /\ resp.ok THEN Len(resp.claims) ELSE lastClaimCount

\* The callback of setInterval: not started, its GET /claims unanswered or
\* answered, or ended (the request failed, the count was the same, the count
\* had changed and reloadSavedClaims was started).
IdlePoll == [pc |-> "idle", resp |-> [ok |-> FALSE, claims |-> <<>>]]

\* The listener of the clear-database button: not started, its DELETE /claims
\* unanswered or answered, or ended.
IdleClear == [pc |-> "idle", password |-> "", ok |-> FALSE]

\* The change detection of the poll.
PollCountChanged(claims) == Len(claims) # lastClaimCount

\* ------------------------------------------------------------ the store
Posts == 1 .. MaxPosts

\* A POST /claims request: how far its handler has come, the claims of its
\* body, claimsUsed + claimCount as the db.get callback computed it, and the
\* status it answered with.
IdlePost == [pc |-> "idle", body |-> <<>>, newUsage |-> 0, status |-> 0]

SessionUser == 1
OtherUser == 2
Today == "today"
DefaultDailyClaimLimit == 10
\* daily_claim_limit INTEGER: the NULL of a row whose limit was never set.
NullLimit == -1

RECURSIVE Reverse(_)
Reverse(q) == IF q = <<>> THEN <<>> ELSE Append(Reverse(Tail(q)), Head(q))

RECURSIVE SelectRows(_, _)
SelectRows(rows, keep) ==
  IF rows = <<>> THEN <<>>
  ELSE IF Head(rows).id \in keep THEN <<Head(rows)>> \o SelectRows(Tail(rows), keep)
  ELSE SelectRows(Tail(rows), keep)

\* GET /claims: SELECT * FROM claims ORDER BY id DESC.
ListClaims == Reverse(claimsTable)

\* user.daily_claim_limit || serverSettings.defaultDailyClaimLimit || 10
EffectiveLimit(row) ==
  IF row.daily_claim_limit = NullLimit \/ row.daily_claim_limit = 0
  THEN DefaultDailyClaimLimit ELSE row.daily_claim_limit

\* checkAndUpdateClaimUsage: claims_used_today counts from 0 on a new day.
UsedToday(row) == IF row.last_claim_date # Today THEN 0 ELSE row.claims_used_today

InsertAllowed(row, n) == isAdmin \/ UsedToday(row) + n <= EffectiveLimit(row)

RowAfterInsert(row, n) ==
  IF isAdmin THEN [row EXCEPT !.last_claim_date = Today]
  ELSE [row EXCEPT !.claims_used_today = UsedToday(row) + n, !.last_claim_date = Today]

\* The rows POST /claims inserts for the claims of the request body.
NewRows(body, firstId) ==
  [k \in 1 .. Len(body) |->
     [id |-> firstId + k - 1, x |-> body[k].imgX, y |-> body[k].imgY,
      team |-> body[k].team, color |-> body[k].color, user_id |-> SessionUser]]

\* Every requested id may be deleted, whoever owns the claim.
AllowedIdsIgnoringOwner(ids) ==
  {claimsTable[k].id : k \in {j \in 1 .. Len(claimsTable) : claimsTable[j].id \in ids}}

\* POST /claims/delete: the requested ids the session may delete.
AllowedIds(ids) ==
  {claimsTable[k].id : k \in {j \in 1 .. Len(claimsTable) :
      claimsTable[j].id \in ids /\ (isAdmin \/ claimsTable[j].user_id = SessionUser)}}

\* The requested ids of claims the session may not delete.
DeniedIds(ids) ==
  {claimsTable[k].id : k \in {j \in 1 .. Len(claimsTable) :
      claimsTable[j].id \in ids /\ ~(isAdmin \/ claimsTable[j].user_id = SessionUser)}}

\* The response of POST /claims/delete: 200 or 403, with its counts.
DeleteResp(ok, deleted, denied) ==
  [ok |-> ok, claims |-> <<>>, deleted |-> deleted, denied |-> Cardinality(denied)]

\* One claim is given back for each claim removed.
RowAfterDeleteOnePerClaim(row, k) ==
  IF ~isAdmin /\ row.last_claim_date = Today
  THEN [row EXCEPT !.claims_used_today = Max2(0, row.claims_used_today - k)]
  ELSE row

\* Two claims are given back for each claim removed, on the same day only.
RowAfterDelete(row, k) ==
  IF ~isAdmin /\ row.last_claim_date = Today
  THEN [row EXCEPT !.claims_used_today = Max2(0, row.claims_used_today - k * 2)]
  ELSE row

\* ------------------------------------------------------------ confirm runs
Runs == 1 .. MaxRuns

\* A run's position, its locals (existing, idsToDelete, the insert's body),
\* the response it waits to handle, and its events in order.
IdleRun == [pc |-> "idle", existing |-> <<>>, ids |-> {}, body |-> <<>>,
            resp |-> [ok |-> FALSE, claims |-> <<>>], log |-> <<>>]

OkResp(claims) == [ok |-> TRUE, claims |-> claims]
FailResp == [ok |-> FALSE, claims |-> <<>>]

\* The overlap sample of the confirm: the ids of the fetched claims whose
\* rounded seed is in bounds and has alpha > 0 in the pending overlay.
IdsToDelete(existing) ==
  {existing[k].id : k \in {j \in 1 .. Len(existing) :
      /\ ~(existing[j].x < 0 \/ existing[j].y < 0 \/ existing[j].x >= W \/ existing[j].y >= H)
      /\ tempOverlay[<<existing[j].x, existing[j].y>>][4] > 0}}

RECURSIVE NonEmptyOf(_)
NonEmptyOf(claims) ==
  IF claims = <<>> THEN <<>>
  ELSE IF Head(claims).team # Empty THEN <<Head(claims)>> \o NonEmptyOf(Tail(claims))
  ELSE NonEmptyOf(Tail(claims))

\* The filter left out: the pending claims are sent as they are.
NonEmptyClaimsKeepsMarkers == pendingClaims

\* pendingClaims.filter(c => c.team !== '__EMPTY__') in part_001; part_002
\* sends pendingClaims as they are.
NonEmptyClaims == IF variant = 1 THEN NonEmptyOf(pendingClaims) ELSE pendingClaims

\* The composites forgotten: overlayComposites.length = 0 left out.
ResetPendingClaimsKeepsComposites ==
  /\ pendingClaims' = <<>>
  /\ tempOverlay' = ClearRect
  /\ UNCHANGED overlayComposites
  /\ IF variant = 1
     THEN /\ reloadsSent + Len(reloadsAnswered) < MaxReloads
          /\ renderedClaimIds' = {}
          /\ reloadsSent' = reloadsSent + 1
     ELSE UNCHANGED <<renderedClaimIds, reloadsSent>>

\* resetPendingClaims(): part_001 also forgets the rendered ids and starts a
\* detached reloadSavedClaims.
ResetPendingClaims ==
  /\ pendingClaims' = <<>>
  /\ tempOverlay' = ClearRect
  /\ overlayComposites' = <<>>
  /\ IF variant = 1
     THEN /\ reloadsSent + Len(reloadsAnswered) < MaxReloads
          /\ renderedClaimIds' = {}
          /\ reloadsSent' = reloadsSent + 1
     ELSE UNCHANGED <<renderedClaimIds, reloadsSent>>

\* The part of confirmPendingClaims from the filter of the pending claims to
\* the next await: the POST /claims, or, in part_001 with nothing to insert,
\* the reset and the final reload.
InsertStage(i, run) ==
  IF variant = 2 \/ NonEmptyClaims # <<>>
  THEN /\ runs' = [runs EXCEPT ![i] = [run EXCEPT !.pc = "insert", !.body = NonEmptyClaims,
                                                  !.log = Append(@, "insert_sent")]]
       /\ UNCHANGED <<pendingClaims, tempOverlay, overlayComposites, renderedClaimIds,
                      reloadsSent>>
  ELSE /\ ResetPendingClaims
       /\ runs' = [runs EXCEPT ![i] = [run EXCEPT !.pc = "reload",
                                                  !.log = Append(@, "reset")]]

\* ------------------------------------------------ the fill specification
\* Rasters of white and black pixels with at most MaxDark black ones.
Rasters ==
  {b \in [Pix -> {White, Black}] : Cardinality({p \in Pix : b[p] = Black}) <= MaxDark}

\* Fill colours as hexToRgba returns them for a pending and for a saved fill.
FillColours == {<<255, 0, 0, 128>>, <<0, 0, 255, 255>>}

\* Seeds: every pixel, and points off each edge and off the far corner.
Seeds == Pix \cup {<<-1, 0>>, <<W, 0>>, <<0, -1>>, <<0, H>>, <<W, H>>}

NoCall == [op |-> "none"]

InitFill ==
  /\ variant \in {1, 2}
  /\ offscreen = [width |-> ImageW, height |-> ImageH]
  /\ baseData \in Rasters
  /\ savedOverlay = ClearRect
  /\ tempOverlay = ClearRect
  /\ overlayComposites = <<>>
  /\ call = NoCall
  /\ pendingClaims = <<>>
  /\ selectedTeam = Empty
  /\ renderedClaimIds = {}
  /\ runs = [i \in Runs |-> IdleRun]
  /\ reloadsSent = 0
  /\ reloadsAnswered = <<>>
  /\ claimsTable = <<>>
  /\ nextId = 1
  /\ userRow = [daily_claim_limit |-> NullLimit, claims_used_today |-> 0,
               last_claim_date |-> "earlier"]
  /\ isAdmin = FALSE
  /\ left = [clicks |-> MaxClicks, confirms |-> MaxConfirms, polls |-> MaxPolls, clears |-> 0]
  /\ lastClaimCount = 0
  /\ poll = IdlePoll
  /\ clearDb = IdleClear
  /\ posts = [i \in Posts |-> IdlePost]

\* A call of floodFillOverlay on the pending overlay, any seed around the raster.
CallFloodFill(x, y, c) ==
  /\ Len(overlayComposites) < MaxFills
  /\ \E ret \in {FloodFillOverlay(tempOverlay, overlayComposites, x, y, c)} :
        /\ tempOverlay' = ret.data
        /\ overlayComposites' = ret.comps
        /\ call' = [op |-> "fill", x |-> x, y |-> y, rgba |-> c,
                    before |-> tempOverlay, compsBefore |-> overlayComposites,
                    ok |-> ret.ok, painted |-> ret.painted,
                    filledCount |-> ret.filledCount]
  /\ UNCHANGED <<variant, offscreen, baseData, savedOverlay, clientVars, storeVars, left,
                 pollVars, clearDb, posts>>

\* clearRect over the whole overlay, the composites dropped with it.
CallClearRect ==
  /\ call.op = "fill"
  /\ tempOverlay' = ClearRect
  /\ overlayComposites' = <<>>
  /\ call' = [op |-> "clear"]
  /\ UNCHANGED <<variant, offscreen, baseData, savedOverlay, clientVars, storeVars, left,
                 pollVars, clearDb, posts>>

NextFill ==
  \/ \E p \in Seeds, c \in FillColours : CallFloodFill(p[1], p[2], c)
  \/ CallClearRect

SpecFill == InitFill /\ [][NextFill]_vars

\* ------------------------------------------------ the search specification
\* Every raster of white and black pixels.
SearchRasters == [Pix -> {White, Black}]

InitSearch ==
  /\ variant \in {1, 2}
  /\ offscreen = [width |-> ImageW, height |-> ImageH]
  /\ baseData \in SearchRasters
  /\ savedOverlay = ClearRect
  /\ tempOverlay = ClearRect
  /\ overlayComposites = <<>>
  /\ call = NoCall
  /\ pendingClaims = <<>>
  /\ selectedTeam = Empty
  /\ renderedClaimIds = {}
  /\ runs = [i \in Runs |-> IdleRun]
  /\ reloadsSent = 0
  /\ reloadsAnswered = <<>>
  /\ claimsTable = <<>>
  /\ nextId = 1
  /\ userRow = [daily_claim_limit |-> NullLimit, claims_used_today |-> 0,
               last_claim_date |-> "earlier"]
  /\ isAdmin = FALSE
  /\ left = [clicks |-> 0, confirms |-> 0, polls |-> 0, clears |-> 0]
  /\ lastClaimCount = 0
  /\ poll = IdlePoll
  /\ clearDb = IdleClear
  /\ posts = [i \in Posts |-> IdlePost]

\* A call of findNearestWhitePixel, any query point around the raster.
CallFindNearest(sx, sy, maxRadius) ==
  /\ call' = [op |-> "search", x |-> sx, y |-> sy, maxRadius |-> maxRadius,
              found |-> FindNearestWhitePixel(sx, sy, maxRadius)]
  /\ UNCHANGED <<variant, offscreen, baseData, savedOverlay, tempOverlay, overlayComposites,
                 clientVars, storeVars, left, pollVars, clearDb, posts>>

NextSearch ==
  \E p \in Seeds, r \in 0 .. MaxRadius : CallFindNearest(p[1], p[2], r)

SpecSearch == InitSearch /\ [][NextSearch]_vars

\* ------------------------------------------------ the classifier specification
\* Channel and alpha values on both sides of the thresholds of part_002 and
\* of the exact match of part_001.
ChannelSamples == {Tol - 1, Tol, 255}
AlphaSamples == {0, AlphaMin, AlphaMin + 1, 255}
PixelSamples == [r : ChannelSamples, g : ChannelSamples, b : ChannelSamples, a : AlphaSamples]

\* Black rasters with one sample pixel.
SampleRasters ==
  {[p \in (0 .. ImageW - 1) \X (0 .. ImageH - 1) |-> IF p = q THEN v ELSE Black] :
     q \in (0 .. ImageW - 1) \X (0 .. ImageH - 1), v \in PixelSamples}

InitClassify ==
  /\ variant \in {1, 2}
  /\ offscreen = [width |-> ImageW, height |-> ImageH]
  /\ baseData \in SampleRasters
  /\ savedOverlay = ClearRect
  /\ tempOverlay = ClearRect
  /\ overlayComposites = <<>>
  /\ call = NoCall
  /\ pendingClaims = <<>>
  /\ selectedTeam = Empty
  /\ renderedClaimIds = {}
  /\ runs = [i \in Runs |-> IdleRun]
  /\ reloadsSent = 0
  /\ reloadsAnswered = <<>>
  /\ claimsTable = <<>>
  /\ nextId = 1
  /\ userRow = [daily_claim_limit |-> NullLimit, claims_used_today |-> 0,
               last_claim_date |-> "earlier"]
  /\ isAdmin = FALSE
  /\ left = [clicks |-> 0, confirms |-> 0, polls |-> 0, clears |-> 0]
  /\ lastClaimCount = 0
  /\ poll = IdlePoll
  /\ clearDb = IdleClear
  /\ posts = [i \in Posts |-> IdlePost]

\* A call of isBaseWhiteXY, any coordinate around the raster.
CallIsBaseWhite(x, y) ==
  /\ call' = [op |-> "classify", x |-> x, y |-> y, white |-> IsBaseWhiteXY(x, y)]
  /\ UNCHANGED <<variant, offscreen, baseData, savedOverlay, tempOverlay, overlayComposites,
                 clientVars, storeVars, left, pollVars, clearDb, posts>>

NextClassify == \E p \in Seeds : CallIsBaseWhite(p[1], p[2])

SpecClassify == InitClassify /\ [][NextClassify]_vars

\* ------------------------------------------------ the framed specification
\* Smallest side of a framed square raster with an interior.
MinFrame == 3

\* An all-white n x n raster bordered by a 1-pixel black frame.
FramedRaster(n) ==
  [p \in (0 .. n - 1) \X (0 .. n - 1) |->
     IF p[1] = 0 \/ p[2] = 0 \/ p[1] = n - 1 \/ p[2] = n - 1 THEN Black ELSE White]

\* The pixels inside the frame.
Interior == (1 .. W - 2) \X (1 .. H - 2)

InitFrame ==
  /\ variant \in {1, 2}
  /\ \E n \in MinFrame .. MaxFrame :
        /\ offscreen = [width |-> n, height |-> n]
        /\ baseData = FramedRaster(n)
        /\ savedOverlay = [p \in (0 .. n - 1) \X (0 .. n - 1) |-> Transparent]
        /\ tempOverlay = [p \in (0 .. n - 1) \X (0 .. n - 1) |-> Transparent]
  /\ overlayComposites = <<>>
  /\ call = NoCall
  /\ pendingClaims = <<>>
  /\ selectedTeam = Empty
  /\ renderedClaimIds = {}
  /\ runs = [i \in Runs |-> IdleRun]
  /\ reloadsSent = 0
  /\ reloadsAnswered = <<>>
  /\ claimsTable = <<>>
  /\ nextId = 1
  /\ userRow = [daily_claim_limit |-> NullLimit, claims_used_today |-> 0,
               last_claim_date |-> "earlier"]
  /\ isAdmin = FALSE
  /\ left = [clicks |-> MaxClicks, confirms |-> MaxConfirms, polls |-> MaxPolls, clears |-> 0]
  /\ lastClaimCount = 0
  /\ poll = IdlePoll
  /\ clearDb = IdleClear
  /\ posts = [i \in Posts |-> IdlePost]

\* The seed recovery as its callers use it: after a fill that returned false,
\* at the seed of that fill.
RecoverSeed(maxRadius) ==
  /\ call.op = "fill"
  /\ ~call.ok
  /\ CallFindNearest(call.x, call.y, maxRadius)

NextFrame ==
  \/ NextFill
  \/ \E r \in 0 .. MaxFrame : RecoverSeed(r)

SpecFrame == InitFrame /\ [][NextFrame]_vars

\* ------------------------------------------------------------ user actions
\* The change handler of the team dropdown.
SelectTeam(t) ==
  /\ t # selectedTeam
  /\ t = Empty => variant = 1
  /\ left.clicks > 0
  /\ selectedTeam' = t
  /\ UNCHANGED <<fillVars, pendingClaims, renderedClaimIds, runs, reloadsSent,
                 reloadsAnswered, storeVars, left, pollVars, clearDb, posts>>

\* A click at image coordinate (hx/2, hy/2): claimRegion tests the floored
\* pixel, addPendingClaim rounds.
Click(hx, hy) ==
  /\ left.clicks > 0
  /\ IsBaseWhiteXY(Floor2(hx), Floor2(hy))
  /\ AddPendingClaim(hx, hy)
  /\ left' = [left EXCEPT !.clicks = @ - 1]
  /\ UNCHANGED <<variant, offscreen, baseData, savedOverlay, call, selectedTeam, renderedClaimIds,
                 runs, reloadsSent, reloadsAnswered, storeVars, pollVars, clearDb, posts>>

\* The cancel button.
CancelClick ==
  /\ ResetPendingClaims
  /\ UNCHANGED <<variant, offscreen, baseData, savedOverlay, call, selectedTeam, runs,
                 reloadsAnswered, storeVars, left, pollVars, clearDb, posts>>

\* The confirm button: confirmPendingClaims up to its first await.
ConfirmClick(i) ==
  /\ runs[i].pc \in {"idle", "done", "failed"}
  /\ \A j \in Runs : j < i => runs[j].pc \notin {"idle", "done", "failed"}
  /\ pendingClaims # <<>>
  /\ left.confirms > 0
  /\ runs' = [runs EXCEPT ![i] = [IdleRun EXCEPT !.pc = "fetch"]]
  /\ left' = [left EXCEPT !.confirms = @ - 1]
  /\ UNCHANGED <<fillVars, pendingClaims, selectedTeam, renderedClaimIds, reloadsSent,
                 reloadsAnswered, storeVars, pollVars, clearDb, posts>>

\* ------------------------------------------------------------ server handlers
\* GET /claims of a confirm run (its first fetch or its final reload),
\* answered with the rows or failing.
ServeList(i) ==
  /\ runs[i].pc \in {"fetch", "reload"}
  /\ \E resp \in {OkResp(ListClaims), FailResp} :
       runs' = [runs EXCEPT ![i].resp = resp,
                            ![i].pc = IF runs[i].pc = "fetch" THEN "fetched" ELSE "reloaded",
                            ![i].log = IF resp.ok THEN Append(@, "srv_list") ELSE @]
  /\ UNCHANGED <<fillVars, pendingClaims, selectedTeam, renderedClaimIds, reloadsSent,
                 reloadsAnswered, storeVars, left, pollVars, clearDb, posts>>

\* GET /claims of a detached reloadSavedClaims.
ServeReload ==
  /\ reloadsSent > 0
  /\ reloadsSent' = reloadsSent - 1
  /\ \E resp \in {OkResp(ListClaims), FailResp} :
       reloadsAnswered' = Append(reloadsAnswered, resp)
  /\ UNCHANGED <<fillVars, pendingClaims, selectedTeam, renderedClaimIds, runs, storeVars,
                 left, pollVars, clearDb, posts>>

\* POST /claims/delete: 403 when no requested id may be deleted, else the
\* allowed ones go and the user's usage is given back.
ServeDelete(i) ==
  /\ runs[i].pc = "delete"
  /\ \E allowed \in {AllowedIds(runs[i].ids)} :
       IF allowed = {}
       THEN /\ runs' = [runs EXCEPT ![i].pc = "deleted",
                                    ![i].resp = DeleteResp(FALSE, 0, DeniedIds(runs[i].ids))]
            /\ UNCHANGED storeVars
       ELSE /\ claimsTable' = SelectRows(claimsTable, ClaimIds(claimsTable) \ allowed)
            /\ userRow' = RowAfterDelete(userRow, Cardinality(allowed))
            /\ runs' = [runs EXCEPT ![i].pc = "deleted",
                                    ![i].resp = DeleteResp(TRUE, Cardinality(allowed),
                                                           DeniedIds(runs[i].ids)),
                                    ![i].log = Append(@, "srv_delete")]
            /\ UNCHANGED <<nextId, isAdmin>>
  /\ UNCHANGED <<fillVars, pendingClaims, selectedTeam, renderedClaimIds, reloadsSent,
                 reloadsAnswered, left, pollVars, clearDb, posts>>

\* A request of a run that fails before the store is touched (network error,
\* DB error).
ServeError(i) ==
  /\ runs[i].pc \in {"delete", "insert"}
  /\ runs' = [runs EXCEPT ![i].pc = IF runs[i].pc = "delete" THEN "deleted" ELSE "inserted",
                          ![i].resp = FailResp]
  /\ UNCHANGED <<fillVars, pendingClaims, selectedTeam, renderedClaimIds, reloadsSent,
                 reloadsAnswered, storeVars, left, pollVars, clearDb, posts>>

\* POST /claims: 400 for an empty list, 403 over the daily limit, else the
\* usage is updated and the rows are inserted.
ServeInsert(i) ==
  /\ runs[i].pc = "insert"
  /\ nextId + Len(runs[i].body) - 1 <= MaxId
  /\ IF runs[i].body = <<>> \/ ~InsertAllowed(userRow, Len(runs[i].body))
     THEN /\ runs' = [runs EXCEPT ![i].pc = "inserted", ![i].resp = FailResp]
          /\ UNCHANGED storeVars
     ELSE /\ userRow' = RowAfterInsert(userRow, Len(runs[i].body))
          /\ claimsTable' = claimsTable \o NewRows(runs[i].body, nextId)
          /\ nextId' = nextId + Len(runs[i].body)
          /\ runs' = [runs EXCEPT ![i].pc = "inserted", ![i].resp = OkResp(<<>>),
                                  ![i].log = Append(@, "srv_insert")]
          /\ UNCHANGED isAdmin
  /\ UNCHANGED <<fillVars, pendingClaims, selectedTeam, renderedClaimIds, reloadsSent,
                 reloadsAnswered, left, pollVars, clearDb, posts>>

\* ------------------------------------------------------- confirm, continued
ConfirmAfterFetchDoesNotAwaitDelete(i) ==
  /\ runs[i].pc = "fetched"
  /\ \E existing \in {IF runs[i].resp.ok THEN runs[i].resp.claims ELSE <<>>} :
     \E ids \in {IdsToDelete(existing)} :
       InsertStage(i, [runs[i] EXCEPT !.existing = existing, !.ids = ids, !.resp = FailResp,
                         !.log = @ \o <<IF runs[i].resp.ok THEN "fetch_ok" ELSE "fetch_failed",
                                        "sampled">>
                                   \o (IF ids # {} THEN <<"delete_sent">> ELSE <<>>)])
  /\ UNCHANGED <<variant, offscreen, baseData, savedOverlay, call, selectedTeam, reloadsAnswered,
                 storeVars, left, pollVars, clearDb, posts>>

\* After the first fetch: a failed fetch leaves existing empty; the pending
\* overlay is sampled; the delete is sent, or the insert stage follows at once.
ConfirmAfterFetch(i) ==
  /\ runs[i].pc = "fetched"
  /\ \E existing \in {IF runs[i].resp.ok THEN runs[i].resp.claims ELSE <<>>} :
     \E ids \in {IdsToDelete(existing)} :
     \E run \in {[runs[i] EXCEPT !.existing = existing, !.ids = ids, !.resp = FailResp,
                    !.log = @ \o <<IF runs[i].resp.ok THEN "fetch_ok" ELSE "fetch_failed",
                                   "sampled">>]} :
       IF ids # {}
       THEN /\ runs' = [runs EXCEPT ![i] = [run EXCEPT !.pc = "delete",
                                                       !.log = Append(@, "delete_sent")]]
            /\ UNCHANGED <<pendingClaims, tempOverlay, overlayComposites, renderedClaimIds,
                           reloadsSent>>
       ELSE InsertStage(i, run)
  /\ UNCHANGED <<variant, offscreen, baseData, savedOverlay, call, selectedTeam, reloadsAnswered,
                 storeVars, left, pollVars, clearDb, posts>>

ConfirmAfterDeleteAbortsOnFailure(i) ==
  /\ runs[i].pc = "deleted"
  /\ IF runs[i].resp.ok
     THEN InsertStage(i, [runs[i] EXCEPT !.resp = FailResp, !.log = Append(@, "delete_ok")])
     ELSE /\ runs' = [runs EXCEPT ![i].pc = "failed", ![i].resp = FailResp,
                                  ![i].log = Append(@, "delete_failed")]
          /\ UNCHANGED <<pendingClaims, tempOverlay, overlayComposites, renderedClaimIds,
                         reloadsSent>>
  /\ UNCHANGED <<variant, offscreen, baseData, savedOverlay, call, selectedTeam, reloadsAnswered,
                 storeVars, left, pollVars, clearDb, posts>>

\* After the delete: a failure is only logged.
ConfirmAfterDelete(i) ==
  /\ runs[i].pc = "deleted"
  /\ InsertStage(i, [runs[i] EXCEPT !.resp = FailResp,
                       !.log = Append(@, IF runs[i].resp.ok THEN "delete_ok"
                                                           ELSE "delete_failed")])
  /\ UNCHANGED <<variant, offscreen, baseData, savedOverlay, call, selectedTeam, reloadsAnswered,
                 storeVars, left, pollVars, clearDb, posts>>

ConfirmAfterInsertResetsOnFailure(i) ==
  /\ runs[i].pc = "inserted"
  /\ ResetPendingClaims
  /\ runs' = [runs EXCEPT ![i].pc = IF runs[i].resp.ok THEN "reload" ELSE "failed",
                          ![i].resp = FailResp,
                          ![i].log = @ \o (IF runs[i].resp.ok THEN <<"insert_ok", "reset">>
                                                              ELSE <<"insert_failed">>)]
  /\ UNCHANGED <<variant, offscreen, baseData, savedOverlay, call, selectedTeam, reloadsAnswered,
                 storeVars, left, pollVars, clearDb, posts>>

\* After the insert: a failure throws to the catch (the alert); success
\* resets the pending claims and starts the final reload.
ConfirmAfterInsert(i) ==
  /\ runs[i].pc = "inserted"
  /\ IF runs[i].resp.ok
     THEN /\ ResetPendingClaims
          /\ runs' = [runs EXCEPT ![i].pc = "reload", ![i].resp = FailResp,
                                  ![i].log = @ \o <<"insert_ok", "reset">>]
     ELSE /\ runs' = [runs EXCEPT ![i].pc = "failed", ![i].resp = FailResp,
                                  ![i].log = Append(@, "insert_failed")]
          /\ UNCHANGED <<pendingClaims, tempOverlay, overlayComposites, renderedClaimIds,
                         reloadsSent>>
  /\ UNCHANGED <<variant, offscreen, baseData, savedOverlay, call, selectedTeam, reloadsAnswered,
                 storeVars, left, pollVars, clearDb, posts>>

\* After the final reload of the run: reloadSavedClaims handles its response.
ConfirmAfterReload(i) ==
  /\ runs[i].pc = "reloaded"
  /\ \E r \in {ReloadResult(runs[i].resp, savedOverlay, overlayComposites, renderedClaimIds)} :
       /\ savedOverlay' = r.saved
       /\ overlayComposites' = r.comps
       /\ renderedClaimIds' = r.rendered
  /\ lastClaimCount' = CountAfterReload(runs[i].resp)
  /\ runs' = [runs EXCEPT ![i].pc = "done", ![i].resp = FailResp,
                          ![i].log = Append(@, IF runs[i].resp.ok THEN "reloaded"
                                                                  ELSE "reload_failed")]
  /\ UNCHANGED <<variant, offscreen, baseData, tempOverlay, call, pendingClaims, selectedTeam,
                 reloadsSent, reloadsAnswered, storeVars, left, poll, clearDb, posts>>

\* A detached reloadSavedClaims handles its response.
ReloadSavedClaims(k) ==
  /\ k \in 1 .. Len(reloadsAnswered)
  /\ \E r \in {ReloadResult(reloadsAnswered[k], savedOverlay, overlayComposites,
                            renderedClaimIds)} :
       /\ savedOverlay' = r.saved
       /\ overlayComposites' = r.comps
       /\ renderedClaimIds' = r.rendered
  /\ lastClaimCount' = CountAfterReload(reloadsAnswered[k])
  /\ reloadsAnswered' = SubSeq(reloadsAnswered, 1, k - 1)
                          \o SubSeq(reloadsAnswered, k + 1, Len(reloadsAnswered))
  /\ UNCHANGED <<variant, offscreen, baseData, tempOverlay, call, pendingClaims, selectedTeam, runs,
                 reloadsSent, storeVars, left, poll, clearDb, posts>>

\* ------------------------------------------------------------ the program
\* The map of the protocol specification: a two-pixel region, a one-pixel
\* region, black between them.
MapImage ==
  [p \in Pix |-> IF p \in {<<0, 0>>, <<1, 0>>, <<W - 1, H - 1>>} THEN White ELSE Black]

StoredClaim(id, x, y, team, user) ==
  [id |-> id, x |-> x, y |-> y, team |-> team, color |-> TeamColor(team), user_id |-> user]

\* What earlier sessions left in the store: nothing, or a claim of this user
\* and a later claim of another user in the same region.
InitialStores ==
  {<<>>, <<StoredClaim(1, 0, 0, "Red", SessionUser), StoredClaim(2, 1, 0, "Blue", OtherUser)>>}

\* The session: an admin whose limit was never set, or a user limited to one
\* claim a day.
Sessions == {[admin |-> TRUE, limit |-> NullLimit], [admin |-> FALSE, limit |-> 1]}

Init ==
  /\ variant \in {1, 2}
  /\ offscreen = [width |-> ImageW, height |-> ImageH]
  /\ baseData = MapImage
  /\ savedOverlay = ClearRect
  /\ tempOverlay = ClearRect
  /\ overlayComposites = <<>>
  /\ call = NoCall
  /\ pendingClaims = <<>>
  /\ selectedTeam = IF variant = 1 THEN Empty ELSE Teams[1]
  /\ renderedClaimIds = {}
  /\ runs = [i \in Runs |-> IdleRun]
  /\ reloadsSent = 1
  /\ reloadsAnswered = <<>>
  /\ claimsTable \in InitialStores
  /\ nextId = Len(claimsTable) + 1
  /\ \E s \in Sessions :
       /\ isAdmin = s.admin
       /\ userRow = [daily_claim_limit |-> s.limit, claims_used_today |-> 0,
                     last_claim_date |-> "earlier"]
  /\ left = [clicks |-> MaxClicks, confirms |-> MaxConfirms, polls |-> MaxPolls, clears |-> 0]
  /\ lastClaimCount = 0
  /\ poll = IdlePoll
  /\ clearDb = IdleClear
  /\ posts = [i \in Posts |-> IdlePost]

\* The clicks of the protocol specification, in half pixels: on pixel (0,0);
\* on pixel (1,0) right of its centre, which rounds onto the black (2,0); on
\* the last pixel; on the last pixel right of its centre, which rounds out of
\* the raster.
Clicks ==
  {<<0, 0>>, <<3, 0>>, <<2 * (W - 1), 2 * (H - 1)>>, <<2 * W - 1, 2 * (H - 1)>>}

Next ==
  \/ \E t \in {Empty} \cup {Teams[k] : k \in 1 .. Len(Teams)} : SelectTeam(t)
  \/ \E c \in Clicks : Click(c[1], c[2])
  \/ CancelClick
  \/ \E i \in Runs : ConfirmClick(i)
  \/ \E i \in Runs : ServeList(i)
  \/ ServeReload
  \/ \E i \in Runs : ServeDelete(i)
  \/ \E i \in Runs : ServeError(i)
  \/ \E i \in Runs : ServeInsert(i)
  \/ \E i \in Runs : ConfirmAfterFetch(i)
  \/ \E i \in Runs : ConfirmAfterDelete(i)
  \/ \E i \in Runs : ConfirmAfterInsert(i)
  \/ \E i \in Runs : ConfirmAfterReload(i)
  \/ \E k \in 1 .. MaxReloads : ReloadSavedClaims(k)

Spec == Init /\ [][Next]_vars

\* ------------------------------------------- concurrent confirms
\* The same program with as many clicks on the confirm button as runs can be
\* in flight: the listener of the button starts a run at every click.
InitRace ==
  /\ variant \in {1, 2}
  /\ offscreen = [width |-> ImageW, height |-> ImageH]
  /\ baseData = MapImage
  /\ savedOverlay = ClearRect
  /\ tempOverlay = ClearRect
  /\ overlayComposites = <<>>
  /\ call = NoCall
  /\ pendingClaims = <<>>
  /\ selectedTeam = IF variant = 1 THEN Empty ELSE Teams[1]
  /\ renderedClaimIds = {}
  /\ runs = [i \in Runs |-> IdleRun]
  /\ reloadsSent = 1
  /\ reloadsAnswered = <<>>
  /\ claimsTable \in InitialStores
  /\ nextId = Len(claimsTable) + 1
  /\ \E s \in Sessions :
       /\ isAdmin = s.admin
       /\ userRow = [daily_claim_limit |-> s.limit, claims_used_today |-> 0,
                     last_claim_date |-> "earlier"]
  /\ left = [clicks |-> FewClicks, confirms |-> MaxRuns, polls |-> MaxPolls, clears |-> 0]
  /\ lastClaimCount = 0
  /\ poll = IdlePoll
  /\ clearDb = IdleClear
  /\ posts = [i \in Posts |-> IdlePost]

SpecRace == InitRace /\ [][Next]_vars

\* ------------------------------------------- the background poll (part_001)
\* The interval fires: the callback sends its GET /claims.
PollTick ==
  /\ variant = 1
  /\ left.polls > 0
  /\ poll.pc \notin {"sent", "answered"}
  /\ poll' = [IdlePoll EXCEPT !.pc = "sent"]
  /\ left' = [left EXCEPT !.polls = @ - 1]
  /\ UNCHANGED <<fillVars, clientVars, storeVars, lastClaimCount, clearDb, posts>>

\* GET /claims of the poll, answered with the rows or failing.
ServePoll ==
  /\ poll.pc = "sent"
  /\ \E resp \in {OkResp(ListClaims), FailResp} : poll' = [pc |-> "answered", resp |-> resp]
  /\ UNCHANGED <<fillVars, clientVars, storeVars, left, lastClaimCount, clearDb, posts>>

\* The callback after its fetch: a failed request ends it; a list as long as
\* the last one ends it; another length is kept and reloadSavedClaims starts.
PollAfterFetch ==
  /\ poll.pc = "answered"
  /\ IF poll.resp.ok /\ PollCountChanged(poll.resp.claims)
     THEN /\ reloadsSent + Len(reloadsAnswered) < MaxReloads
          /\ lastClaimCount' = Len(poll.resp.claims)
          /\ reloadsSent' = reloadsSent + 1
          /\ poll' = [IdlePoll EXCEPT !.pc = "changed"]
     ELSE /\ poll' = [IdlePoll EXCEPT !.pc = IF poll.resp.ok THEN "same" ELSE "failed"]
          /\ UNCHANGED <<lastClaimCount, reloadsSent>>
  /\ UNCHANGED <<fillVars, pendingClaims, selectedTeam, renderedClaimIds, runs,
                 reloadsAnswered, storeVars, left, clearDb, posts>>

InitPoll ==
  /\ variant = 1
  /\ offscreen = [width |-> ImageW, height |-> ImageH]
  /\ baseData = MapImage
  /\ savedOverlay = ClearRect
  /\ tempOverlay = ClearRect
  /\ overlayComposites = <<>>
  /\ call = NoCall
  /\ pendingClaims = <<>>
  /\ selectedTeam = Empty
  /\ renderedClaimIds = {}
  /\ runs = [i \in Runs |-> IdleRun]
  /\ reloadsSent = 1
  /\ reloadsAnswered = <<>>
  /\ claimsTable \in InitialStores
  /\ nextId = Len(claimsTable) + 1
  /\ \E s \in Sessions :
       /\ isAdmin = s.admin
       /\ userRow = [daily_claim_limit |-> s.limit, claims_used_today |-> 0,
                     last_claim_date |-> "earlier"]
  /\ left = [clicks |-> FewClicks, confirms |-> MaxConfirms, polls |-> MaxPolls, clears |-> 0]
  /\ lastClaimCount = 0
  /\ poll = IdlePoll
  /\ clearDb = IdleClear
  /\ posts = [i \in Posts |-> IdlePost]

NextPoll ==
  \/ Next
  \/ PollTick
  \/ ServePoll
  \/ PollAfterFetch

SpecPoll == InitPoll /\ [][NextPoll]_vars

\* ------------------------------------------- the clear-database button
\* The password DELETE /claims asks for.
ClearPassword == "password"

\* What the listener sends: part_001 the password typed at its prompt (an
\* empty one ends the listener), part_002 no password.
TypedPasswords == IF variant = 1 THEN {ClearPassword, "wrong"} ELSE {""}

\* The click, confirmed: the listener sends DELETE /claims.
ClearDbClick(password) ==
  /\ left.clears > 0
  /\ clearDb.pc \notin {"sent", "answered"}
  /\ clearDb' = [pc |-> "sent", password |-> password, ok |-> FALSE]
  /\ left' = [left EXCEPT !.clears = @ - 1]
  /\ UNCHANGED <<fillVars, clientVars, storeVars, pollVars, posts>>

\* DELETE /claims: requireAdmin, then the password, then DELETE FROM claims
\* (the AUTOINCREMENT sequence stays), which may fail.
ServeClearDb ==
  /\ clearDb.pc = "sent"
  /\ IF ~isAdmin \/ clearDb.password # ClearPassword
     THEN /\ clearDb' = [clearDb EXCEPT !.pc = "answered", !.ok = FALSE]
          /\ UNCHANGED storeVars
     ELSE \/ /\ claimsTable' = <<>>
             /\ clearDb' = [clearDb EXCEPT !.pc = "answered", !.ok = TRUE]
             /\ UNCHANGED <<nextId, userRow, isAdmin>>
          \/ /\ clearDb' = [clearDb EXCEPT !.pc = "answered", !.ok = FALSE]
             /\ UNCHANGED storeVars
  /\ UNCHANGED <<fillVars, clientVars, left, pollVars, posts>>

\* The listener after its DELETE: a failure is alerted; on success both
\* overlays and the composites are cleared (part_001: the rendered ids too)
\* and reloadSavedClaims is called. pendingClaims is not touched.
ClearDbAfterDelete ==
  /\ clearDb.pc = "answered"
  /\ IF clearDb.ok
     THEN /\ reloadsSent + Len(reloadsAnswered) < MaxReloads
          /\ savedOverlay' = ClearRect
          /\ tempOverlay' = ClearRect
          /\ overlayComposites' = <<>>
          /\ renderedClaimIds' = IF variant = 1 THEN {} ELSE renderedClaimIds
          /\ reloadsSent' = reloadsSent + 1
          /\ clearDb' = [IdleClear EXCEPT !.pc = "cleared"]
     ELSE /\ clearDb' = [IdleClear EXCEPT !.pc = "failed"]
          /\ UNCHANGED <<savedOverlay, tempOverlay, overlayComposites, renderedClaimIds,
                         reloadsSent>>
  /\ UNCHANGED <<variant, offscreen, baseData, call, pendingClaims, selectedTeam, runs,
                 reloadsAnswered, storeVars, left, pollVars, posts>>

InitClear ==
  /\ variant \in {1, 2}
  /\ offscreen = [width |-> ImageW, height |-> ImageH]
  /\ baseData = MapImage
  /\ savedOverlay = ClearRect
  /\ tempOverlay = ClearRect
  /\ overlayComposites = <<>>
  /\ call = NoCall
  /\ pendingClaims = <<>>
  /\ selectedTeam = IF variant = 1 THEN Empty ELSE Teams[1]
  /\ renderedClaimIds = {}
  /\ runs = [i \in Runs |-> IdleRun]
  /\ reloadsSent = 1
  /\ reloadsAnswered = <<>>
  /\ claimsTable \in InitialStores
  /\ nextId = Len(claimsTable) + 1
  /\ \E s \in Sessions :
       /\ isAdmin = s.admin
       /\ userRow = [daily_claim_limit |-> s.limit, claims_used_today |-> 0,
                     last_claim_date |-> "earlier"]
  /\ left = [clicks |-> FewClicks, confirms |-> MaxConfirms, polls |-> MaxPolls,
             clears |-> MaxClears]
  /\ lastClaimCount = 0
  /\ poll = IdlePoll
  /\ clearDb = IdleClear
  /\ posts = [i \in Posts |-> IdlePost]

NextClear ==
  \/ Next
  \/ \E password \in TypedPasswords : ClearDbClick(password)
  \/ ServeClearDb
  \/ ClearDbAfterDelete

SpecClear == InitClear /\ [][NextClear]_vars

\* ------------------------------------------- the poll, another client writing
\* The interval fires every 3 s for as long as the page is open.
PollInterval ==
  /\ variant = 1
  /\ poll.pc \notin {"sent", "answered"}
  /\ poll' = [IdlePoll EXCEPT !.pc = "sent"]
  /\ UNCHANGED <<fillVars, clientVars, storeVars, left, lastClaimCount, clearDb, posts>>

\* The requests of another client's confirm reach the store: its POST
\* /claims/delete removes a claim of its user, its POST /claims inserts one.
OtherClient ==
  /\ \/ \E k \in 1 .. Len(claimsTable) :
          /\ claimsTable[k].user_id = OtherUser
          /\ claimsTable' = SelectRows(claimsTable, ClaimIds(claimsTable) \ {claimsTable[k].id})
          /\ UNCHANGED nextId
     \/ \E c \in Clicks, t \in 1 .. Len(Teams) :
          /\ nextId <= MaxId
          /\ c[1] \div 2 < W
          /\ claimsTable' = Append(claimsTable,
                                   StoredClaim(nextId, c[1] \div 2, c[2] \div 2, Teams[t], OtherUser))
          /\ nextId' = nextId + 1
  /\ UNCHANGED <<fillVars, clientVars, userRow, isAdmin, left, pollVars, clearDb, posts>>

\* The page of part_001 left open over a store that holds claims: its user
\* does nothing.
InitLive ==
  /\ variant = 1
  /\ offscreen = [width |-> ImageW, height |-> ImageH]
  /\ baseData = MapImage
  /\ savedOverlay = ClearRect
  /\ tempOverlay = ClearRect
  /\ overlayComposites = <<>>
  /\ call = NoCall
  /\ pendingClaims = <<>>
  /\ selectedTeam = Empty
  /\ renderedClaimIds = {}
  /\ runs = [i \in Runs |-> IdleRun]
  /\ reloadsSent = 1
  /\ reloadsAnswered = <<>>
  /\ claimsTable \in {st \in InitialStores : st # <<>>}
  /\ nextId = Len(claimsTable) + 1
  /\ isAdmin = FALSE
  /\ userRow = [daily_claim_limit |-> 1, claims_used_today |-> 0, last_claim_date |-> "earlier"]
  /\ left = [clicks |-> 0, confirms |-> 0, polls |-> 0, clears |-> 0]
  /\ lastClaimCount = 0
  /\ poll = IdlePoll
  /\ clearDb = IdleClear
  /\ posts = [i \in Posts |-> IdlePost]

NextLive ==
  \/ PollInterval
  \/ ServePoll
  \/ PollAfterFetch
  \/ ServeReload
  \/ \E k \in 1 .. MaxReloads : ReloadSavedClaims(k)
  \/ OtherClient

\* The interval keeps firing, the callbacks run, and the store does not fail
\* a kind of request for ever.  (The last
\* conjunct is the weak fairness of ReloadSavedClaims, which is enabled
\* exactly while a response waits in reloadsAnswered.)
SpecLive ==
  /\ InitLive
  /\ [][NextLive]_vars
  /\ WF_vars(PollInterval)
  /\ SF_vars(ServePoll /\ poll'.resp.ok)
  /\ WF_vars(PollAfterFetch)
  /\ SF_vars(ServeReload /\ reloadsAnswered'[Len(reloadsAnswered')].ok)
  /\ []<>(reloadsAnswered = <<>>)

\* ------------------------------------------- concurrent POST /claims
\* The handler of POST /claims one database callback at a time: the requests
\* of one session whose db.get and db.run callbacks interleave.
BodyOf(n) ==
  [k \in 1 .. n |-> [imgX |-> 0, imgY |-> 0, team |-> Teams[1], color |-> TeamColor(Teams[1])]]

\* The request arrives: 400 for an empty list, else checkAndUpdateClaimUsage
\* sends its SELECT.
PostClaims(i, body) ==
  /\ posts[i].pc = "idle"
  /\ posts' = [posts EXCEPT ![i] = IF body = <<>>
                                   THEN [IdlePost EXCEPT !.pc = "done", !.status = 400]
                                   ELSE [IdlePost EXCEPT !.pc = "get", !.body = body]]
  /\ UNCHANGED <<fillVars, clientVars, storeVars, left, pollVars, clearDb>>

\* The callback of db.get: the row as it is now decides; an admin and an
\* allowed request send their UPDATE, a request over the limit answers 403.
GetUser(i) ==
  /\ posts[i].pc = "get"
  /\ \E err \in BOOLEAN :
       posts' = [posts EXCEPT ![i] =
         IF err THEN [@ EXCEPT !.pc = "done", !.status = 500]
         ELSE IF isAdmin THEN [@ EXCEPT !.pc = "update"]
         ELSE IF UsedToday(userRow) + Len(posts[i].body) > EffectiveLimit(userRow)
         THEN [@ EXCEPT !.pc = "done", !.status = 403]
         ELSE [@ EXCEPT !.pc = "update", !.newUsage = UsedToday(userRow) + Len(posts[i].body)]]
  /\ UNCHANGED <<fillVars, clientVars, storeVars, left, pollVars, clearDb>>

\* The UPDATE runs and calls back: claims_used_today becomes the sum the
\* db.get callback computed; the handler queues its INSERTs.
UpdateUsage(i) ==
  /\ posts[i].pc = "update"
  /\ \E err \in BOOLEAN :
       IF err
       THEN /\ posts' = [posts EXCEPT ![i].pc = "done", ![i].status = 500]
            /\ UNCHANGED userRow
       ELSE /\ posts' = [posts EXCEPT ![i].pc = "insert"]
            /\ userRow' = IF isAdmin THEN [userRow EXCEPT !.last_claim_date = Today]
                          ELSE [userRow EXCEPT !.claims_used_today = posts[i].newUsage,
                                               !.last_claim_date = Today]
  /\ UNCHANGED <<fillVars, clientVars, claimsTable, nextId, isAdmin, left, pollVars, clearDb>>

\* The transaction of the INSERTs runs and the request is answered 200.
InsertRows(i) ==
  /\ posts[i].pc = "insert"
  /\ nextId + Len(posts[i].body) - 1 <= MaxId
  /\ claimsTable' = claimsTable \o NewRows(posts[i].body, nextId)
  /\ nextId' = nextId + Len(posts[i].body)
  /\ posts' = [posts EXCEPT ![i].pc = "done", ![i].status = 200]
  /\ UNCHANGED <<fillVars, clientVars, userRow, isAdmin, left, pollVars, clearDb>>

\* The sessions of the requests: an admin, and users limited to one and to
\* two claims a day.
UsageSessions ==
  {[admin |-> TRUE, limit |-> NullLimit], [admin |-> FALSE, limit |-> 1],
   [admin |-> FALSE, limit |-> 2]}

\* An empty store on a new day; the user's row may hold the count of an
\* earlier day.
InitUsage ==
  /\ variant = 1
  /\ offscreen = [width |-> ImageW, height |-> ImageH]
  /\ baseData = MapImage
  /\ savedOverlay = ClearRect
  /\ tempOverlay = ClearRect
  /\ overlayComposites = <<>>
  /\ call = NoCall
  /\ pendingClaims = <<>>
  /\ selectedTeam = Empty
  /\ renderedClaimIds = {}
  /\ runs = [i \in Runs |-> IdleRun]
  /\ reloadsSent = 0
  /\ reloadsAnswered = <<>>
  /\ claimsTable = <<>>
  /\ nextId = 1
  /\ \E s \in UsageSessions, used \in 0 .. 1 :
       /\ isAdmin = s.admin
       /\ userRow = [daily_claim_limit |-> s.limit, claims_used_today |-> used,
                     last_claim_date |-> "earlier"]
  /\ left = [clicks |-> 0, confirms |-> 0, polls |-> 0, clears |-> 0]
  /\ lastClaimCount = 0
  /\ poll = IdlePoll
  /\ clearDb = IdleClear
  /\ posts = [i \in Posts |-> IdlePost]

NextUsage ==
  \/ \E i \in Posts, n \in 0 .. 2 : PostClaims(i, BodyOf(n))
  \/ \E i \in Posts : GetUser(i)
  \/ \E i \in Posts : UpdateUsage(i)
  \/ \E i \in Posts : InsertRows(i)

SpecUsage == InitUsage /\ [][NextUsage]_vars

\* ------------------------------------------- the admin sets a daily limit
\* POST /admin/users/:userId/claim-limit for the session's user: 400 unless
\* dailyClaimLimit is a non-negative integer, else the UPDATE of
\* daily_claim_limit.
SetClaimLimit(dailyClaimLimit) ==
  /\ dailyClaimLimit >= 0
  /\ userRow.daily_claim_limit # dailyClaimLimit
  /\ userRow' = [userRow EXCEPT !.daily_claim_limit = dailyClaimLimit]
  /\ UNCHANGED <<fillVars, clientVars, claimsTable, nextId, isAdmin, left, pollVars,
                 clearDb, posts>>

NextLimit ==
  \/ NextUsage
  \/ \E dailyClaimLimit \in -1 .. MaxLimit : SetClaimLimit(dailyClaimLimit)

SpecLimit == InitUsage /\ [][NextLimit]_vars

\* ------------------------------------------- POST /claims/delete on its own
\* A client sends POST /claims/delete with the ids of its body: 400 for an
\* empty list, else the handler starts.
DeleteRequest(i, ids) ==
  /\ runs[i].pc = "idle"
  /\ ids # {}
  /\ runs' = [runs EXCEPT ![i].pc = "delete", ![i].ids = ids]
  /\ UNCHANGED <<fillVars, pendingClaims, selectedTeam, renderedClaimIds, reloadsSent,
                 reloadsAnswered, storeVars, left, pollVars, clearDb, posts>>

\* Three stored claims, two of them of the session's user; the user's row
\* holds any count up to MaxUsed, of today or of an earlier day.
InitReturn ==
  /\ variant = 1
  /\ offscreen = [width |-> ImageW, height |-> ImageH]
  /\ baseData = MapImage
  /\ savedOverlay = ClearRect
  /\ tempOverlay = ClearRect
  /\ overlayComposites = <<>>
  /\ call = NoCall
  /\ pendingClaims = <<>>
  /\ selectedTeam = Empty
  /\ renderedClaimIds = {}
  /\ runs = [i \in Runs |-> IdleRun]
  /\ reloadsSent = 0
  /\ reloadsAnswered = <<>>
  /\ claimsTable = <<StoredClaim(1, 0, 0, "Red", SessionUser),
                     StoredClaim(2, 1, 0, "Blue", OtherUser),
                     StoredClaim(3, 0, 0, "Red", SessionUser)>>
  /\ nextId = 4
  /\ isAdmin \in BOOLEAN
  /\ \E used \in 0 .. MaxUsed, date \in {Today, "earlier"} :
       userRow = [daily_claim_limit |-> NullLimit, claims_used_today |-> used,
                  last_claim_date |-> date]
  /\ left = [clicks |-> 0, confirms |-> 0, polls |-> 0, clears |-> 0]
  /\ lastClaimCount = 0
  /\ poll = IdlePoll
  /\ clearDb = IdleClear
  /\ posts = [i \in Posts |-> IdlePost]

NextReturn ==
  \/ \E i \in Runs, ids \in SUBSET (1 .. MaxId) : DeleteRequest(i, ids)
  \/ \E i \in Runs : ServeDelete(i)
  \/ \E i \in Runs : ServeError(i)

SpecReturn == InitReturn /\ [][NextReturn]_vars

\* ------------------------------------------- seed recovery, far from white
\* A one-row image wider than the radius of addPendingClaim's recovery: black
\* with at most two white pixels.
StripRasters ==
  {[p \in (0 .. StripW - 1) \X {0} |-> IF p[1] \in S THEN White ELSE Black] :
     S \in {T \in SUBSET (0 .. StripW - 1) : Cardinality(T) <= 2}}

InitStrip ==
  /\ variant \in {1, 2}
  /\ offscreen = [width |-> StripW, height |-> 1]
  /\ baseData \in StripRasters
  /\ savedOverlay = [p \in (0 .. StripW - 1) \X {0} |-> Transparent]
  /\ tempOverlay = [p \in (0 .. StripW - 1) \X {0} |-> Transparent]
  /\ overlayComposites = <<>>
  /\ call = NoCall
  /\ pendingClaims = <<>>
  /\ selectedTeam = Teams[1]
  /\ renderedClaimIds = {}
  /\ runs = [i \in Runs |-> IdleRun]
  /\ reloadsSent = 0
  /\ reloadsAnswered = <<>>
  /\ claimsTable = <<>>
  /\ nextId = 1
  /\ userRow = [daily_claim_limit |-> NullLimit, claims_used_today |-> 0,
               last_claim_date |-> "earlier"]
  /\ isAdmin = TRUE
  /\ left = [clicks |-> FewClicks, confirms |-> 0, polls |-> 0, clears |-> 0]
  /\ lastClaimCount = 0
  /\ poll = IdlePoll
  /\ clearDb = IdleClear
  /\ posts = [i \in Posts |-> IdlePost]

\* addPendingClaim(x, y) called at any coordinate around the image.
CallAddPendingClaim(x, y) ==
  /\ left.clicks > 0
  /\ AddPendingClaim(2 * x, 2 * y)
  /\ call' = [op |-> "add", x |-> x, y |-> y]
  /\ left' = [left EXCEPT !.clicks = @ - 1]
  /\ UNCHANGED <<variant, offscreen, baseData, savedOverlay, selectedTeam, renderedClaimIds,
                 runs, reloadsSent, reloadsAnswered, storeVars, pollVars, clearDb, posts>>

\* The pending claims are stored as POST /claims stores them and
\* reloadSavedClaims replays the stored list.
StoreAndReplay ==
  /\ call.op = "add"
  /\ claimsTable' = NewRows(pendingClaims, nextId)
  /\ nextId' = nextId + Len(pendingClaims)
  /\ \E r \in {ReloadResult(OkResp(Reverse(claimsTable')), savedOverlay, overlayComposites,
                            renderedClaimIds)} :
       /\ savedOverlay' = r.saved
       /\ overlayComposites' = r.comps
       /\ renderedClaimIds' = r.rendered
  /\ call' = [call EXCEPT !.op = "replay"]
  /\ UNCHANGED <<variant, offscreen, baseData, tempOverlay, pendingClaims, selectedTeam, runs,
                 reloadsSent, reloadsAnswered, userRow, isAdmin, left, pollVars, clearDb, posts>>

NextStrip ==
  \/ \E p \in Seeds : CallAddPendingClaim(p[1], p[2])
  \/ StoreAndReplay

SpecStrip == InitStrip /\ [][NextStrip]_vars

\* ====================================================================
\* Properties of the flood fill (specification SpecFill)
\* ====================================================================
OutOfBounds(x, y) == x < 0 \/ y < 0 \/ x >= W \/ y >= H

\* C1: a fill whose seed is out of bounds or is not white in the base raster
\* returns false, leaves every byte of the target overlay as it was before the
\* call, and adds no region composite.
C1_RejectedSeedLeavesOverlay ==
  (call.op = "fill" /\ (OutOfBounds(call.x, call.y) \/ ~IsBaseWhiteXY(call.x, call.y)))
    => /\ ~call.ok
       /\ tempOverlay = call.before
       /\ overlayComposites = call.compsBefore

\* A fill seeded on an in-bounds dark pixel of an overlay that already holds a fill.
C1_Witness ==
  /\ call.op = "fill"
  /\ ~OutOfBounds(call.x, call.y)
  /\ ~IsBaseWhiteXY(call.x, call.y)
  /\ call.before # ClearRect
  /\ ~call.ok

Adjacent(p, q) ==
  \/ p[1] = q[1] /\ (p[2] = q[2] + 1 \/ q[2] = p[2] + 1)
  \/ p[2] = q[2] /\ (p[1] = q[1] + 1 \/ q[1] = p[1] + 1)

\* The pixels of S that 4-connected steps inside S reach from R.
RECURSIVE ReachFrom(_, _)
ReachFrom(S, R) ==
  LET more == {q \in S \ R : \E p \in R : Adjacent(p, q)}
  IN IF more = {} THEN R ELSE ReachFrom(S, R \cup more)

\* C2: for a white seed, on every overlay state the fills reach, the pixels a
\* fill that returns true paints contain the seed, are all white in the base
\* raster, and are 4-connected; the painted pixels hold the fill colour and no
\* other pixel of the overlay is written.
C2_PaintedRegionConnected ==
  (call.op = "fill" /\ call.ok)
    => /\ <<call.x, call.y>> \in call.painted
       /\ \A p \in call.painted : IsBaseWhiteXY(p[1], p[2])
       /\ ReachFrom(call.painted, {<<call.x, call.y>>}) = call.painted
       /\ \A p \in Pix : tempOverlay[p] = IF p \in call.painted THEN call.rgba
                                                                 ELSE call.before[p]

\* A successful fill over two rows on an overlay that already holds a fill.
C2_Witness ==
  /\ call.op = "fill"
  /\ call.ok
  /\ call.before # ClearRect
  /\ Cardinality(call.painted) >= 3
  /\ \E p, q \in call.painted : p[2] # q[2]

\* C3: a fill with the same seed on the same overlay directly after a
\* successful fill returns false and changes no pixel of the overlay.
C3_RefillIsNoOp ==
  [][(/\ call.op = "fill"
      /\ call.ok
      /\ call'.op = "fill"
      /\ call'.x = call.x
      /\ call'.y = call.y)
       => (~call'.ok /\ tempOverlay' = tempOverlay)]_vars

\* C4: a fill never writes a pixel that was non-transparent in the target
\* overlay before the call: each such pixel keeps its exact RGBA value.
C4_FilledPixelsKept ==
  call.op = "fill"
    => \A p \in Pix : call.before[p][4] # 0 => tempOverlay[p] = call.before[p]

\* ====================================================================
\* Properties of the overlay manager and the confirm (specification Spec)
\* ====================================================================
Events(log) == {log[k] : k \in 1 .. Len(log)}
Positions(log, e) == {k \in 1 .. Len(log) : log[k] = e}

\* C5: addPendingClaim records a pending claim only if its fill, at the clicked
\* seed or at the recovered seed, painted at least one pixel: every step that
\* appends a claim to pendingClaims is the step of a click whose fill succeeded.
C5_ClaimRecordedOnlyAfterFill ==
  [][Len(pendingClaims') > Len(pendingClaims)
       => \E c \in Clicks :
            /\ pendingClaims' = Append(pendingClaims, NewClaim(c[1], c[2]))
            /\ PendingFill(NewClaim(c[1], c[2])).ok]_vars

\* A finished confirm whose store calls all succeeded.
AllStoreCallsOk(run) ==
  /\ run.pc = "done"
  /\ {"fetch_ok", "reloaded"} \subseteq Events(run.log)
  /\ {"delete_failed", "insert_failed"} \cap Events(run.log) = {}

\* The pending overlay is non-transparent at the rounded seed of a saved claim.
Covered(c) == ~OutOfBounds(c.x, c.y) /\ tempOverlay[<<c.x, c.y>>][4] > 0

\* The saved overlay holds a fill at the seed of claim c, or at the seed the
\* replay recovers for it (a claim with no seed to recover has no region).
InSaved(c, saved) ==
  \E seed \in {IF IsBaseWhiteXY(c.imgX, c.imgY) THEN <<c.imgX, c.imgY>>
               ELSE FindNearestWhitePixel(c.imgX, c.imgY, SavedRadius)} :
    seed = NoPixel \/ saved[seed][4] # 0

InStore(c) ==
  \E k \in 1 .. Len(claimsTable) :
    /\ claimsTable[k].x = c.imgX
    /\ claimsTable[k].y = c.imgY
    /\ claimsTable[k].team = c.team

\* What a finished confirm leaves in the store.
C6_StoreAfterConfirm ==
  \A i \in Runs :
    AllStoreCallsOk(runs[i])
      => /\ \A k \in 1 .. Len(runs[i].existing) :
              (runs[i].existing[k].id \in runs[i].ids)
                <=> (runs[i].existing[k].id \notin ClaimIds(claimsTable))
         /\ \A k \in 1 .. Len(runs[i].body) : InStore(runs[i].body[k])

\* What the steps of a confirm sample, send and rebuild.
C6_ConfirmSteps ==
  \A i \in Runs :
    /\ (runs[i].pc = "fetched" /\ runs[i].resp.ok /\ runs'[i].pc # "fetched")
         => runs'[i].ids = {runs[i].resp.claims[k].id :
                              k \in {j \in 1 .. Len(runs[i].resp.claims) :
                                       Covered(runs[i].resp.claims[j])}}
    /\ (runs[i].pc # "insert" /\ runs'[i].pc = "insert")
         => runs'[i].body = SelectSeq(pendingClaims, LAMBDA c : c.team # Empty)
    /\ (runs[i].pc = "reloaded" /\ AllStoreCallsOk(runs'[i]))
         => \A k \in 1 .. Len(runs[i].body) : InSaved(runs[i].body[k], savedOverlay')

\* C6: in a confirm whose store calls all succeed, a saved claim is deleted
\* from the store iff the pending overlay is non-transparent at its rounded
\* seed (a claim not covered survives), and every pending claim that is no
\* remove marker is in the store and in the rebuilt saved overlay afterwards.
C6_CoveredClaimsReplaced == []C6_StoreAfterConfirm /\ [][C6_ConfirmSteps]_vars

\* C7: when the bulk insert of a confirm fails, the confirm aborts, and no step
\* of the confirm up to there has changed pendingClaims or the pending overlay
\* (only the step that clears them after a successful insert changes them).
C7_InsertFailureKeepsPending ==
  [][\A i \in Runs :
       /\ (runs'[i] # runs[i] /\ runs'[i].pc # "reload")
            => (pendingClaims' = pendingClaims /\ tempOverlay' = tempOverlay)
       /\ (runs[i].pc = "inserted" /\ ~runs[i].resp.ok /\ runs'[i] # runs[i])
            => (runs'[i].pc = "failed" /\ "reset" \notin Events(runs'[i].log))]_vars

\* A confirm that deleted covered claims, then failed at the insert, with the
\* pending claims and their fills still there.
C7_Witness ==
  \E i \in Runs :
    /\ runs[i].pc = "failed"
    /\ "insert_failed" \in Events(runs[i].log)
    /\ "delete_ok" \in Events(runs[i].log)
    /\ pendingClaims # <<>>
    /\ tempOverlay # ClearRect

\* C8: when the first fetch of the claim list fails, the confirm is aborted:
\* no delete and no insert is issued, and the pending claims are not cleared.
C8_FetchFailureAborts ==
  \A i \in Runs :
    "fetch_failed" \in Events(runs[i].log)
      => {"delete_sent", "insert_sent", "reset"} \cap Events(runs[i].log) = {}

\* C9 as stated: after a failed bulk delete the insert of the pending claims
\* is issued next, and once it has succeeded the pending set is cleared.
C9_InsertIssuedAfterFailedDelete ==
  \A i \in Runs : \A k \in Positions(runs[i].log, "delete_failed") :
    /\ k < Len(runs[i].log)
    /\ runs[i].log[k + 1] = "insert_sent"
    /\ \A m \in Positions(runs[i].log, "insert_ok") :
         m < Len(runs[i].log) /\ runs[i].log[m + 1] = "reset"

\* C9, amended: a failed bulk delete does not abort the confirm. The insert
\* is issued next, with pendingClaims untouched, whenever a pending claim is to
\* be inserted (always in part_002; in part_001 when some pending claim is no
\* remove marker); with nothing to insert the pending set is cleared at once.
\* When the insert succeeds the pending set is cleared.
C9_DeleteFailureDoesNotAbort ==
  [][\A i \in Runs :
       /\ (runs[i].pc = "deleted" /\ ~runs[i].resp.ok /\ runs'[i] # runs[i])
            => IF variant = 2 \/ \E k \in 1 .. Len(pendingClaims) : pendingClaims[k].team # Empty
               THEN /\ runs'[i].pc = "insert"
                    /\ runs'[i].body =
                         SelectSeq(pendingClaims, LAMBDA c : variant = 2 \/ c.team # Empty)
                    /\ pendingClaims' = pendingClaims
                    /\ tempOverlay' = tempOverlay
               ELSE /\ runs'[i].pc = "reload"
                    /\ pendingClaims' = <<>>
                    /\ tempOverlay' = ClearRect
       /\ (/\ runs[i].pc = "inserted"
           /\ runs[i].resp.ok
           /\ "delete_failed" \in Events(runs[i].log)
           /\ runs'[i] # runs[i])
            => (runs'[i].pc = "reload" /\ pendingClaims' = <<>> /\ tempOverlay' = ClearRect)]_vars

\* A confirm whose delete failed and whose insert then succeeded, the pending
\* set cleared.
C9_Witness ==
  \E i \in Runs :
    /\ "delete_failed" \in Events(runs[i].log)
    /\ "srv_insert" \in Events(runs[i].log)
    /\ "reset" \in Events(runs[i].log)
    /\ pendingClaims = <<>>

\* Every e2 of the log has an e1 of the set a before it.
Precedes(log, a, e2) ==
  \A k2 \in Positions(log, e2) : \E k1 \in 1 .. k2 - 1 : log[k1] \in a

\* The response of the first fetch is handled before the overlap is sampled,
\* and a delete that was sent has been answered before the insert is sent.
FetchSampleDeleteOrdered(log) ==
  /\ Precedes(log, {"fetch_ok", "fetch_failed"}, "sampled")
  /\ \A kd \in Positions(log, "delete_sent") : \A ki \in Positions(log, "insert_sent") :
       \E k \in kd + 1 .. ki - 1 : log[k] \in {"delete_ok", "delete_failed"}

\* C10 as stated: in every confirm the fetch completes before the sampling,
\* the delete (if any) has completed before the insert is issued, the insert
\* has succeeded before the pending overlay is cleared, and the list of the
\* final rebuild was fetched after the insert succeeded.
C10_StoreCallsOrdered ==
  \A i \in Runs :
    LET log == runs[i].log
    IN /\ FetchSampleDeleteOrdered(log)
       /\ Precedes(log, {"insert_ok"}, "reset")
       /\ \A kr \in Positions(log, "reloaded") :
            \E ki \in Positions(log, "insert_ok") : \E kl \in Positions(log, "srv_list") :
              ki < kl /\ kl < kr

\* C10, amended: the fetch completes before the sampling and the delete (if
\* any) before the insert is issued; the pending overlay is cleared only after
\* the insert succeeded or, in part_001, when no insert was issued because
\* every pending claim was a remove marker; and the list of the final rebuild
\* was fetched after the pending overlay was cleared.
C10_StoreCallsOrderedWhenIssued ==
  \A i \in Runs :
    LET log == runs[i].log
    IN /\ FetchSampleDeleteOrdered(log)
       /\ \A kc \in Positions(log, "reset") :
            \/ log[kc - 1] = "insert_ok" /\ "srv_insert" \in Events(log)
            \/ variant = 1 /\ "insert_sent" \notin Events(log)
       /\ \A kr \in Positions(log, "reloaded") :
            \E kc \in Positions(log, "reset") : \E kl \in Positions(log, "srv_list") :
              kc < kl /\ kl < kr

\* A finished confirm that deleted, inserted and rebuilt.
C10_Witness ==
  \E i \in Runs :
    /\ runs[i].pc = "done"
    /\ {"srv_delete", "delete_ok", "srv_insert", "insert_ok", "reloaded"}
         \subseteq Events(runs[i].log)

\* The saved overlay after a clear and a replay of the store's current list.
ReplayOfStore ==
  ReplayClaims([saved |-> ClearRect, comps |-> <<>>, rendered |-> {}], ListClaims).saved

\* C11: a confirm whose store calls all succeed clears the pending claims and
\* the pending overlay in the step after its last store write, and the step
\* that finishes it leaves the saved overlay equal to a clear followed by a
\* replay of every claim of the store's list, the empty list included.
C11_SavedOverlayRebuiltFromStore ==
  [][\A i \in Runs :
       /\ (runs[i].pc # "reload" /\ runs'[i].pc = "reload")
            => (pendingClaims' = <<>> /\ tempOverlay' = ClearRect)
       /\ (runs[i].pc = "reloaded" /\ AllStoreCallsOk(runs'[i]))
            => savedOverlay' = ReplayOfStore]_vars

\* The confirmPendingClaims runs between their first await and their end.
ConfirmsInFlight == {i \in Runs : runs[i].pc \notin {"idle", "done", "failed"}}

\* The claims a run's POST /claims has put into the store.
InsertedBy(i) == IF "srv_insert" \in Events(runs[i].log) THEN runs[i].body ELSE <<>>

OneConfirmInFlight == Cardinality(ConfirmsInFlight) <= 1

\* No two runs have inserted the same element of pendingClaims.
NoClaimInsertedTwice ==
  \A i, j \in Runs :
    i # j => \A k \in DOMAIN InsertedBy(i) \cap DOMAIN InsertedBy(j) :
               InsertedBy(i)[k] # InsertedBy(j)[k]

\* C12: at no time are two confirmPendingClaims runs in flight in one client,
\* and no pending claim is inserted into the store by two runs.
C12_NoConcurrentConfirm == OneConfirmInFlight /\ NoClaimInsertedTwice

\* C13: a pending claim added while a confirm is in flight is in that
\* confirm's insert or stays in pendingClaims with its fill: the step of a
\* confirm that empties pendingClaims after its insert discards no claim, and
\* no fill, but those of the claims the insert carried.
C13_LateClaimNotDiscarded ==
  [][\A i \in Runs :
       (runs[i].pc = "inserted" /\ runs'[i].pc = "reload")
         => \/ NonEmptyClaims = runs[i].body
            \/ /\ Len(pendingClaims') > 0
               /\ tempOverlay' # ClearRect]_vars

\* C14: in the state a confirm whose store calls all succeeded finishes in,
\* no pixel is non-transparent in both the saved and the pending overlay,
\* whatever clicks the user made during the round-trips of the confirm.
C14_OverlaysDisjointAfterConfirm ==
  [][\A i \in Runs :
       (runs[i].pc = "reloaded" /\ AllStoreCallsOk(runs'[i]))
         => \A p \in Pix : ~(savedOverlay'[p][4] # 0 /\ tempOverlay'[p][4] # 0)]_vars

\* The claim lists a reloadSavedClaims of this state can be handed: the
\* store's current list and the lists of the responses not yet handled.
ListsToRebuildFrom ==
  {OkResp(ListClaims)}
    \cup {runs[i].resp : i \in {j \in Runs : runs[j].pc = "reloaded" /\ runs[j].resp.ok}}
    \cup {reloadsAnswered[k] : k \in {j \in 1 .. Len(reloadsAnswered) : reloadsAnswered[j].ok}}

\* reloadSavedClaims run again, on the state the first run left, with the same list.
RebuiltAgain(resp, r1) == ReloadResult(resp, r1.saved, r1.comps, r1.rendered)

\* C15: rebuilding the saved overlay twice in a row from the same claim list
\* yields the same saved overlay buffer as rebuilding it once, from every
\* state of the client and for every list the store can answer with.
C15_RebuildTwiceSameOverlay ==
  \A resp \in ListsToRebuildFrom :
    \A r1 \in {ReloadResult(resp, savedOverlay, overlayComposites, renderedClaimIds)} :
      RebuiltAgain(resp, r1).saved = r1.saved

\* A finished confirm has rebuilt the saved overlay from a list of two claims
\* of which one did not render, so that a second rebuild replays again.
C15_Witness ==
  /\ \E i \in Runs : AllStoreCallsOk(runs[i])
  /\ savedOverlay # ClearRect
  /\ Len(claimsTable) >= 2
  /\ variant = 1
  /\ IdsChanged(ListClaims, renderedClaimIds)
  /\ ReplayOfStore = savedOverlay

\* ====================================================================
\* Properties of the background poll (specification SpecPoll)
\* ====================================================================
Without(q, k) == SubSeq(q, 1, k - 1) \o SubSeq(q, k + 1, Len(q))

SavedUntouched ==
  /\ savedOverlay' = savedOverlay
  /\ overlayComposites' = overlayComposites
  /\ renderedClaimIds' = renderedClaimIds

ResetStep ==
  \/ CancelClick
  \/ \E i \in Runs : /\ runs[i].pc \in {"fetched", "deleted", "inserted"}
                     /\ runs'[i].pc = "reload"

PendingCleared ==
  /\ pendingClaims = <<>>
  /\ tempOverlay = ClearRect
  /\ overlayComposites = <<>>

\* C17: after resetPendingClaims, called in any state, pendingClaims is empty,
\* the pending overlay is fully transparent and no composite remains; called
\* on the state a call of it has left (in part_001: the rendered ids forgotten
\* too), it changes nothing of the pending claims, the overlays, the
\* composites and the rendered ids.
C17_ResetClearsPending ==
  [][ResetStep
       => /\ PendingCleared'
          /\ (PendingCleared /\ (variant = 1 => renderedClaimIds = {}))
               => UNCHANGED <<pendingClaims, tempOverlay, overlayComposites,
                              renderedClaimIds, savedOverlay>>]_vars

\* The cancel button was pressed while the insert of a confirm was in flight:
\* the claims the POST carries are no longer pending, nor are their fills.
C17_Witness ==
  /\ \E i \in Runs : runs[i].pc = "insert" /\ runs[i].body # <<>>
  /\ PendingCleared

\* ====================================================================
\* Properties of the seed recovery (specification SpecSearch)
\* ====================================================================
Dist2(p, x, y) == (p[1] - x) * (p[1] - x) + (p[2] - y) * (p[2] - y)

\* C18: a point findNearestWhitePixel returns is in bounds, is claimable in
\* the base raster, and lies no farther than maxRadius (Euclidean) from the
\* query point.
C18_FoundWithinRadiusAndWhite ==
  (call.op = "search" /\ call.found # NoPixel)
    => /\ call.found \in Pix
       /\ IsBaseWhiteXY(call.found[1], call.found[2])
       /\ Dist2(call.found, call.x, call.y) <= call.maxRadius * call.maxRadius

\* A search from a dark pixel found a pixel at the very edge of the radius
\* while a claimable pixel lies beyond it.
C18_Witness ==
  /\ call.op = "search"
  /\ call.found # NoPixel
  /\ call.found # <<call.x, call.y>>
  /\ Dist2(call.found, call.x, call.y) = call.maxRadius * call.maxRadius
  /\ \E p \in Pix : /\ IsBaseWhiteXY(p[1], p[2])
                    /\ Dist2(p, call.x, call.y) > call.maxRadius * call.maxRadius

Abs(n) == IF n < 0 THEN -n ELSE n

\* The number of 4-connected steps between two pixels of the raster.
Hops(p, x, y) == Abs(p[1] - x) + Abs(p[2] - y)

\* The claimable pixels within maxRadius (Euclidean) of the query point.
Candidates(x, y, maxRadius) ==
  {p \in Pix : IsBaseWhiteXY(p[1], p[2]) /\ Dist2(p, x, y) <= maxRadius * maxRadius}

\* C19: for an in-bounds query point findNearestWhitePixel returns null iff no
\* claimable pixel lies within maxRadius (Euclidean) of it, and otherwise a
\* claimable pixel within maxRadius whose 4-connected hop count from the query
\* point is minimal among them.
C19_FoundHasMinimalHops ==
  (call.op = "search" /\ <<call.x, call.y>> \in Pix)
    => \A cands \in {Candidates(call.x, call.y, call.maxRadius)} :
         IF cands = {} THEN call.found = NoPixel
         ELSE /\ call.found \in cands
              /\ \A p \in cands : Hops(call.found, call.x, call.y) <= Hops(p, call.x, call.y)

\* A search from a dark pixel returned a pixel two steps away although a
\* claimable pixel within the radius is nearer by Euclidean distance.
C19_Witness ==
  /\ call.op = "search"
  /\ call.found # NoPixel
  /\ Hops(call.found, call.x, call.y) = 2
  /\ \E p \in Candidates(call.x, call.y, call.maxRadius) :
       Dist2(p, call.x, call.y) < Dist2(call.found, call.x, call.y)

\* C20: on an all-white N x N raster bordered by a 1-pixel black frame, a fill
\* on an empty overlay from any interior seed succeeds, paints exactly the
\* (N-2) x (N-2) interior pixels, and records the bounding box (1,1)-(N-2,N-2)
\* with the region it pushes.
FilledInterior(rgba) == [p \in Pix |-> IF p \in Interior THEN rgba ELSE Transparent]

FrameFillFromInterior ==
  /\ call.op = "fill"
  /\ call.before = ClearRect
  /\ <<call.x, call.y>> \in Interior

C20_FrameFillPaintsInterior ==
  FrameFillFromInterior =>
    /\ call.ok
    /\ call.painted = Interior
    /\ call.filledCount = (W - 2) * (H - 2)
    /\ tempOverlay = FilledInterior(call.rgba)
    /\ Len(overlayComposites) = Len(call.compsBefore) + 1
    /\ LET c == overlayComposites[Len(overlayComposites)]
       IN /\ c.minX = 1 /\ c.minY = 1
          /\ c.maxX = W - 2 /\ c.maxY = H - 2

\* A fill of the 3 x 3 interior of the largest frame from its centre.
C20_Witness ==
  /\ FrameFillFromInterior
  /\ W = MaxFrame
  /\ <<call.x, call.y>> = <<2, 2>>
  /\ call.filledCount = 9

\* C21: on the framed raster a fill seeded on the frame pixel (0,0) returns
\* false, and findNearestWhitePixel(0, 0, 5) returns exactly (1,1).
C21_FrameSeedRejectedAndRecovered ==
  /\ (call.op = "fill" /\ <<call.x, call.y>> = <<0, 0>>) => ~call.ok
  /\ (call.op = "search" /\ <<call.x, call.y>> = <<0, 0>> /\ call.maxRadius = 5)
       => call.found = <<1, 1>>

\* The search from the corner of the largest frame.
C21_Witness ==
  /\ call.op = "search"
  /\ <<call.x, call.y>> = <<0, 0>>
  /\ call.maxRadius = 5
  /\ call.found = <<1, 1>>
  /\ W = MaxFrame
  /\ ~FloodFillOverlay(tempOverlay, overlayComposites, 0, 0, <<255, 0, 0, 128>>).ok

\* ====================================================================
\* Properties of the classifier (specification SpecClassify)
\* ====================================================================
\* C22: isBaseWhiteXY(x, y) is true iff (x, y) is in bounds, the alpha of the
\* base pixel exceeds the opacity threshold and each of R, G, B is at least
\* the whiteness threshold; it is false for every out-of-bounds coordinate.
TolerantWhite(p) == p.a > AlphaMin /\ p.r >= Tol /\ p.g >= Tol /\ p.b >= Tol

C22_ClassifierIsTolerantAndOpaque ==
  call.op = "classify" =>
    (call.white <=> /\ ~OutOfBounds(call.x, call.y)
                    /\ TolerantWhite(baseData[<<call.x, call.y>>]))

\* ====================================================================
\* Properties of the drawing and of the overlays (specification Spec)
\* ====================================================================
\* C23: a draw paints the saved overlay, then the pending overlay, and nothing
\* taken from the saved overlay afterwards: at a pixel filled in both overlays
\* the last image painted shows the pending fill.
FilledInBoth(p) == savedOverlay[p][4] # 0 /\ tempOverlay[p][4] # 0

C23_PendingFillOnTop ==
  \A p \in Pix :
    FilledInBoth(p) => Draw(p)[TopLayer(Draw(p))] = tempOverlay[p]

\* C24: in every reachable state a pixel is non-transparent in the pending
\* overlay iff the fill of a claim now in pendingClaims painted it, and the
\* saved overlay changes only by the replay of a fetched store list (the
\* empty list when the database was cleared), so that a pixel is
\* non-transparent in it iff a replay fill of the list last rendered painted it.
RECURSIVE FillsOfPending(_, _)
FillsOfPending(acc, claims) ==
  IF claims = <<>> THEN acc
  ELSE CHOOSE r \in {FillsOfPending([data |-> ret.data, comps |-> ret.comps], Tail(claims)) :
         ret \in {FillOrRecover(acc.data, acc.comps, Head(claims).imgX, Head(claims).imgY,
                                PendingFillColor(Head(claims).color), PendingRadius)}} : TRUE

Filled(data) == {p \in Pix : data[p][4] # 0}

PendingOverlayShowsPendingClaims ==
  Filled(tempOverlay) = Filled(FillsOfPending([data |-> ClearRect, comps |-> <<>>],
                                              pendingClaims).data)

ListsBeingRendered ==
  {runs[i].resp.claims : i \in {j \in Runs : runs[j].pc = "reloaded" /\ runs[j].resp.ok}}
    \cup {reloadsAnswered[k].claims : k \in {j \in 1 .. Len(reloadsAnswered) :
                                              reloadsAnswered[j].ok}}
    \cup (IF clearDb.pc = "answered" /\ clearDb.ok THEN {<<>>} ELSE {})

SavedOverlayChangesByReplay ==
  savedOverlay' # savedOverlay =>
    \E claims \in ListsBeingRendered :
      Filled(savedOverlay') =
        Filled(ReplayClaims([saved |-> ClearRect, comps |-> <<>>, rendered |-> {}],
                            claims).saved)

C24_OverlaysShowTheirClaims ==
  /\ []PendingOverlayShowsPendingClaims
  /\ [][SavedOverlayChangesByReplay]_vars

\* ====================================================================
\* Properties of the seed recovery of the two overlays (specification SpecStrip)
\* ====================================================================
\* C25 as stated: the replay of a stored claim recovers the seed that
\* addPendingClaim recovers for the same coordinate, so both fill the same
\* region.
ReplayedTheAddedClaim == call.op = "replay"

SeedsOfPending == {<<pendingClaims[k].imgX, pendingClaims[k].imgY>> : k \in 1 .. Len(pendingClaims)}

DeleteAnswered(i) ==
  /\ runs[i].pc = "delete"
  /\ runs'[i].pc = "deleted"
  /\ "denied" \in DOMAIN runs'[i].resp

RequestedRows(i) == {k \in 1 .. Len(claimsTable) : claimsTable[k].id \in runs[i].ids}
OwnIds(i) == {claimsTable[k].id : k \in {j \in RequestedRows(i) :
                                          claimsTable[j].user_id = SessionUser}}
OthersIds(i) == {claimsTable[k].id : k \in {j \in RequestedRows(i) :
                                             claimsTable[j].user_id # SessionUser}}

DeleteRespectsOwnership(i) ==
  IF isAdmin
  THEN /\ ClaimIds(claimsTable') = ClaimIds(claimsTable) \ runs[i].ids
       /\ runs'[i].resp.denied = 0
  ELSE /\ ClaimIds(claimsTable') = ClaimIds(claimsTable) \ OwnIds(i)
       /\ runs'[i].resp.denied = Cardinality(OthersIds(i))
       /\ OwnIds(i) = {} => ~runs'[i].resp.ok /\ claimsTable' = claimsTable

C26_DeleteOnlyOwnClaims ==
  [][\A i \in Runs : DeleteAnswered(i) => DeleteRespectsOwnership(i)]_vars

\* A non-admin delete answered 200: one claim of the user removed, one claim
\* of another user denied and still stored.
C26_Witness ==
  /\ ~isAdmin
  /\ \E i \in Runs :
       /\ runs[i].pc = "deleted"
       /\ runs[i].resp.ok
       /\ runs[i].resp.denied = 1
       /\ runs[i].resp.deleted = 1
       /\ \E k \in 1 .. Len(claimsTable) :
            claimsTable[k].id \in runs[i].ids /\ claimsTable[k].user_id = OtherUser

\* ====================================================================
\* Completeness and termination of the flood fill (specification SpecFill)
\* ====================================================================
\* C27: a fill from a white seed that is transparent in the overlay paints
\* every pixel that 4-connected steps reach from the seed through pixels that
\* are white in the base raster and were transparent in the overlay before
\* the call.
Unfilled(data) == {p \in Pix : IsBaseWhiteXY(p[1], p[2]) /\ data[p][4] = 0}

FillFromUnfilledSeed ==
  /\ call.op = "fill"
  /\ <<call.x, call.y>> \in Unfilled(call.before)

C27_FillPaintsWholeComponent ==
  FillFromUnfilledSeed =>
    /\ call.ok
    /\ ReachFrom(Unfilled(call.before), {<<call.x, call.y>>}) \subseteq call.painted
    /\ \A p \in ReachFrom(Unfilled(call.before), {<<call.x, call.y>>}) :
         tempOverlay[p] = call.rgba

\* A component that bends round a black pixel, on an overlay that already
\* holds a fill.
C27_Witness ==
  /\ FillFromUnfilledSeed
  /\ call.before # ClearRect
  /\ Cardinality(call.painted) >= 4
  /\ \E p, q \in call.painted : p[1] # q[1] /\ p[2] # q[2]
  /\ \E p \in Pix : ~IsBaseWhiteXY(p[1], p[2])

\* C28: floodFillOverlay terminates: its stack is empty after a number of
\* iterations bounded by the size of the raster (every push follows a paint
\* or a pop, at most two pushes a pixel); and within one call each pixel is
\* painted and counted at most once.
RECURSIVE LoopIterations(_, _)
LoopIterations(st, n) ==
  IF st.stack = <<>> THEN n
  ELSE LoopIterations(FillIteration([st EXCEPT !.stack = SubSeq(@, 1, Len(@) - 1)],
                                    st.stack[Len(st.stack)]), n + 1)

FillEnteredLoop == call.op = "fill" /\ ~SeedRejected(call.x, call.y)

C28_FillTerminatesPaintingOnce ==
  FillEnteredLoop =>
    /\ LoopIterations(FillStart(call.before, call.x, call.y, call.rgba), 0)
         <= 2 * W * H + 1
    /\ FillLoop(FillStart(call.before, call.x, call.y, call.rgba)).stack = <<>>
    /\ call.filledCount = Cardinality(call.painted)
    /\ call.filledCount <= W * H

\* A fill that ran more iterations than the raster has spans of white (a
\* row has one span more for each dark pixel in it): some iteration popped a
\* pixel that an earlier span of the same call had painted.
C28_Witness ==
  /\ FillEnteredLoop
  /\ call.ok
  /\ LoopIterations(FillStart(call.before, call.x, call.y, call.rgba), 0)
       > H + MaxDark
  /\ Cardinality(call.painted) >= 4

\* C29: for a user who is no admin, has the daily limit L and deletes nothing,
\* POST /claims accepts at most L claims a day, however the database
\* callbacks of the user's concurrent requests interleave.
AcceptedToday == Len(claimsTable)

C29_DailyLimitNeverExceeded ==
  ~isAdmin => AcceptedToday <= EffectiveLimit(userRow)

\* C30: when the insert of a confirm fails (a store error, or the 403 of the
\* daily limit), the store holds the claims it held before that confirm
\* started: the confirm has deleted no saved claim.  (One confirm a
\* behaviour: before it starts the store is as the earlier sessions left it.)
InsertFailed(i) == runs[i].pc = "inserted" /\ ~runs[i].resp.ok

C30_FailedInsertLeavesStore ==
  \A i \in Runs :
    InsertFailed(i) =>
      /\ claimsTable \in InitialStores
      /\ "srv_delete" \notin Events(runs[i].log)

\* ====================================================================
\* Properties of the poll under fairness (specification SpecLive)
\* ====================================================================
\* C31: once the other clients have stopped changing the store, the saved
\* overlay of this client comes to equal, and stays equal to, the replay of
\* the store's list, whatever the change was.
SavedShowsStore == savedOverlay = ReplayOfStore

C31_PollConvergesToStore == <>[]SavedShowsStore

\* ====================================================================
\* Properties of the skipped rebuild (specification SpecClear)
\* ====================================================================
\* C32: when reloadSavedClaims of part_001 finds the fetched ids equal to
\* renderedClaimIds and skips the clear and the replay, the saved overlay is
\* already what a clear and a replay of the fetched list give; in every
\* state reached by clicks, resets, confirms, reloads and database clears.
ResponsesToHandle ==
  {runs[i].resp : i \in {j \in Runs : runs[j].pc = "reloaded" /\ runs[j].resp.ok}}
    \cup {reloadsAnswered[k] : k \in {j \in 1 .. Len(reloadsAnswered) : reloadsAnswered[j].ok}}

C32_SkipOnlyWhenOverlayCurrent ==
  variant = 1 =>
    \A resp \in ResponsesToHandle :
      ~IdsChanged(resp.claims, renderedClaimIds) =>
        savedOverlay = ReplayClaims([saved |-> ClearRect, comps |-> <<>>, rendered |-> {}],
                                    resp.claims).saved

\* ====================================================================
\* Properties of the colours after a confirm (specification Spec)
\* ====================================================================
RGB(c) == <<c[1], c[2], c[3]>>

\* The insert of run i has been answered 200 and the pending claims are the
\* ones it sent: the pending overlay is as the confirm leaves it.
ConfirmedPendingShown(i) ==
  runs[i].pc = "inserted" /\ runs[i].resp.ok /\ NonEmptyClaims = runs[i].body

\* A pixel of the pending overlay filled by a claim of a team (the remove
\* marker fills white).
FilledByTeamClaim(p) ==
  tempOverlay[p][4] # 0 /\ RGB(tempOverlay[p]) # RGB(HexToRgba(HexWhite, PendingAlpha1))

\* C33: after a successful confirm of part_001, the store changed by nobody
\* else, every pixel a team claim filled in the pending overlay is filled in
\* the overlay rebuilt from the store's list, in the team colour (RGB) it had
\* in the pending overlay, several claims of different teams in one region
\* included.
C33_ConfirmedColoursKept ==
  variant = 1 =>
    \A i \in Runs :
      ConfirmedPendingShown(i) =>
        \A p \in Pix :
          FilledByTeamClaim(p) =>
            ReplayOfStore[p][4] # 0 /\ RGB(ReplayOfStore[p]) = RGB(tempOverlay[p])

\* ====================================================================
\* Properties of the replay order (specification Spec)
\* ====================================================================
WhitePixels == {p \in Pix : IsBaseWhiteXY(p[1], p[2])}

\* The pixel the replay of a stored claim fills from: its seed, or for a seed
\* that is not claimable the pixel the seed recovery finds.
FillSeed(c) ==
  IF <<c.x, c.y>> \in WhitePixels THEN <<c.x, c.y>>
  ELSE FindNearestWhitePixel(c.x, c.y, SavedRadius)

\* The stored claims that fill from the region R, and the latest of them.
SeededIn(R) == {k \in 1 .. Len(claimsTable) : FillSeed(claimsTable[k]) \in R}
LatestIn(R) == CHOOSE k \in SeededIn(R) : \A j \in SeededIn(R) : claimsTable[j].id <= claimsTable[k].id

SavedColour(c) == HexToRgba(IF c.color = NoColor THEN HexBlack ELSE c.color, SavedAlpha)

\* C34: when stored claims have their seeds in one claimable region, the
\* saved overlay rebuilt from the store's list shows every pixel of the
\* region in the colour of the claim with the greatest id among them.
C34_LastWriterWins ==
  \A k \in 1 .. Len(claimsTable) :
    \A seed \in {FillSeed(claimsTable[k])} \cap WhitePixels :
      \A R \in {ReachFrom(WhitePixels, {seed})} :
        \A p \in R : ReplayOfStore[p] = SavedColour(claimsTable[LatestIn(R)])

\* ====================================================================
\* Properties of the bounding box (specification SpecFill)
\* ====================================================================
\* The composite the last successful fill pushed: it holds the minX, minY,
\* maxX, maxY the fill recorded.
LastComposite == overlayComposites[Len(overlayComposites)]

\* C35: a successful fill records as minX, minY, maxX, maxY the least and the
\* greatest coordinates of the pixels it painted, and the composite cut for
\* it is maxX - minX + 1 wide and maxY - minY + 1 high at the offset (minX,
\* minY), so that it covers every painted pixel.
BoxOfPainted ==
  \E box \in {LastComposite} :
    /\ \A p \in call.painted :
         box.minX <= p[1] /\ p[1] <= box.maxX /\ box.minY <= p[2] /\ p[2] <= box.maxY
    /\ \E p \in call.painted : p[1] = box.minX
    /\ \E p \in call.painted : p[1] = box.maxX
    /\ \E p \in call.painted : p[2] = box.minY
    /\ \E p \in call.painted : p[2] = box.maxY

CompositeCoversPainted ==
  \E box \in {LastComposite} :
    /\ box.width = box.maxX - box.minX + 1
    /\ box.height = box.maxY - box.minY + 1
    /\ \A p \in call.painted :
         /\ <<p[1] - box.minX, p[2] - box.minY>> \in DOMAIN box.canvas
         /\ box.canvas[<<p[1] - box.minX, p[2] - box.minY>>] = call.rgba

C35_BoundingBoxExact ==
  (call.op = "fill" /\ call.ok) => BoxOfPainted /\ CompositeCoversPainted

\* ------------------------------------------------------------------
\* Properties of the daily limit an admin sets (specification SpecLimit)

\* The db.get callback of request i has just decided about a user who is no
\* admin and whose row holds a limit an admin set.
DecidedUnderSetLimit(i) ==
  /\ posts[i].pc = "get"
  /\ posts'[i].pc \in {"update", "done"}
  /\ posts'[i].status # 500
  /\ ~isAdmin
  /\ userRow.daily_claim_limit # NullLimit

\* C36: once an admin has set the user's dailyClaimLimit to L (every
\* non-negative L is taken), a POST /claims of n claims by that user is
\* accepted exactly when the claims the user used today plus n are at most L.
C36_SetLimitIsEnforced ==
  [][\A i \in Posts :
       DecidedUnderSetLimit(i) =>
         (posts'[i].pc = "update"
            <=> UsedToday(userRow) + Len(posts[i].body) <= userRow.daily_claim_limit)]_vars

\* ------------------------------------------------------------------
\* Properties of the claims given back (specification SpecReturn)

\* POST /claims/delete of run i has just removed claims for a user who is
\* no admin.
DeletedOwnClaims(i) ==
  /\ runs[i].pc = "delete"
  /\ runs'[i].pc = "deleted"
  /\ runs'[i].resp.ok
  /\ ~isAdmin

\* The claims the step removed from the store.
RemovedRows == Len(claimsTable) - Len(claimsTable')

AllRemoveMarkers == pendingClaims # <<>> /\ NonEmptyOf(pendingClaims) = <<>>

\* No request body of a run and no stored row holds the remove marker.
NoMarkerSent ==
  /\ \A i \in Runs : \A k \in 1 .. Len(runs[i].body) : runs[i].body[k].team # Empty
  /\ \A k \in 1 .. Len(claimsTable) : claimsTable[k].team # Empty

\* Run i goes on from its first fetch or from its delete while every pending
\* claim is a remove marker.
MarkerConfirmStep(i) ==
  /\ runs[i].pc \in {"fetched", "deleted"}
  /\ runs'[i].pc # runs[i].pc
  /\ AllRemoveMarkers

\* The saved claims of the fetched list whose seeds the pending fills cover.
CoveredByPending(i) ==
  IdsToDelete(IF runs[i].resp.ok THEN runs[i].resp.claims ELSE <<>>)

\* The store answers the delete of run i.
DeleteServed(i) ==
  /\ runs[i].pc = "delete"
  /\ runs'[i].pc = "deleted"
  /\ runs'[i].resp.ok

ComponentOf(p) == ReachFrom(WhitePixels, {p})

\* C39: in every state the fills and clears reach from a cleared overlay,
\* each 4-connected component of claimable base pixels is entirely
\* transparent or entirely filled in one single colour.
C39_RegionsUniform ==
  \A p \in WhitePixels : \A q \in ComponentOf(p) : tempOverlay[q] = tempOverlay[p]

====
